---- MODULE Spec2Model ----
(***************************************************************************)
(* Graph-to-bytecode compiler of the TorchScript interpreter               *)
(* (torch/csrc/jit/runtime/interpreter/code_impl.h, struct CodeImpl).      *)
(*                                                                         *)
(* The IR is a tree of blocks and nodes.  Every emit function of CodeImpl  *)
(* is an operator on the record of CodeImpl's fields; the state machine    *)
(* runs the constructor (run(): emitCodeForBlock over the root block, RET, *)
(* insertBailoutBlocks) and then the post-compilation operations.          *)
(***************************************************************************)
EXTENDS Integers, Sequences, FiniteSets, TLC

VARIABLES
  graph_,               \* CodeImpl::graph_, pointer to the preprocessed graph
  instructions_,        \* std::vector<Instruction>
  instructions_source_, \* std::vector<Node*>, ids of the emitting nodes
  constant_table_,
  operator_table_,
  function_table_,
  type_table_,
  register_size_,
  value_to_reg_,        \* unordered_map<Value*, int>
  op_to_num_specified_args_, \* unordered_map<std::string, size_t>
  use_count_,           \* unordered_map<Value*, size_t>
  current_node_,
  last_inserted_op_,
  bailout_blocks_,      \* std::vector<BailoutBlock>
  FLAGS_torch_jit_disable_warning_prints, \* the global flag emitWarn reads
  dynamic_type,         \* the class of the object: whose virtuals are called
  grad_executors_,      \* c10::optional<std::vector<GraphExecutor*>>
  forward_executors_,   \* c10::optional<std::vector<GraphExecutor*>>
  call,                 \* of each thread: its call of grad_executors() or
                        \* diff_graph_op_executors() and the statement it is at
  frame,                \* the interpreter's frame running the program
  pc,                   \* position of the constructor / life cycle of the object
  pos,                  \* next node of the root block in emitCodeForBlock
  err,                  \* the exception that ended the last call, or "none"
  ret                   \* value returned by the last call that returns one

vars == <<graph_, instructions_, instructions_source_, constant_table_,
          operator_table_, function_table_, type_table_, register_size_,
          value_to_reg_, use_count_, current_node_, last_inserted_op_,
          bailout_blocks_, FLAGS_torch_jit_disable_warning_prints,
          op_to_num_specified_args_, dynamic_type, grad_executors_,
          forward_executors_, call, frame, pc, pos, err, ret>>

----------------------------------------------------------------------------
(* Bounds of the model *)

\* number of direct calls of insertInstruction the order driver makes
MaxInserts == 3
\* request_bailout is called with indices 0..MaxBailoutIndex
MaxBailoutIndex == 3
\* the generated graphs nest guarded blocks up to this depth
MaxDepth == 2
\* and give every BailOut node up to this many inputs after the guarded one
MaxExtra == 2
\* number of direct calls the register-table driver makes
MaxCalls == 4
\* number of calls of grad_executors() and diff_graph_op_executors() a
\* thread makes
MaxThreadCalls == 2

----------------------------------------------------------------------------
(* The graph IR (torch/csrc/jit/ir/ir.h is an external collaborator; only  *)
(* what CodeImpl reads of it is represented).                              *)

NoNode == 0   \* nullptr

\* toIValue(v) and v->type(): told apart by the value they belong to
toIValue(v) == <<"ivalue", v>>
TypeOf(v) == <<"type", v>>

\* What maybeOperator() finds for a node: found is maybeOperator() !=
\* nullptr; the schema has name(), overload_name(), is_vararg() and
\* arguments(), of which only default_value() is read: a c10::optional,
\* here a sequence of at most one value.
NoOperator ==
  [found |-> FALSE, hasOperation |-> FALSE, name |-> "", overload_name |-> "",
   is_vararg |-> FALSE, arguments |-> <<>>]

Operator(name, overload_name, is_vararg, arguments) ==
  [found |-> TRUE, hasOperation |-> TRUE, name |-> name,
   overload_name |-> overload_name, is_vararg |-> is_vararg,
   arguments |-> [i \in 1..Len(arguments) |->
                    [default_value |-> arguments[i]]]]

\* A node: kind(), inputs(), outputs(), blocks(); owner is owningBlock(),
\* topo the position isAfter() compares; fn marks a Constant whose output
\* type is a FunctionType; op is the operator registered for the node.
\* Of the attributes: name is s(attr::name) of a prim::CallMethod,
\* class_type that the type of its first input casts to ClassType, and
\* types the size of tys(attr::types) of a prim::isinstance.
Node(id, kind, inputs, outputs, blocks) ==
  [id |-> id, kind |-> kind, inputs |-> inputs, outputs |-> outputs,
   blocks |-> blocks, owner |-> 0, topo |-> 0, fn |-> FALSE,
   op |-> NoOperator, name |-> "", class_type |-> FALSE, types |-> 0]

FnConstant(id, out) ==
  [Node(id, "Constant", <<>>, <<out>>, <<>>) EXCEPT !.fn = TRUE]

\* A block: param_node(), nodes(), return_node().
Block(bid, pid, pouts, nodes, rid, rins) ==
  [id    |-> bid,
   param |-> [Node(pid, "Param", <<>>, pouts, <<>>) EXCEPT !.owner = bid],
   nodes |-> [i \in 1..Len(nodes) |->
                [nodes[i] EXCEPT !.owner = bid, !.topo = i]],
   ret   |-> [Node(rid, "Return", rins, <<>>, <<>>)
                EXCEPT !.owner = bid, !.topo = Len(nodes) + 1]]

\* A graph after PreprocessGraph: its root block and can_emit_inline.
Graph(block, inl) == [block |-> block, can_emit_inline |-> inl]

RECURSIVE NodesOfBlock(_)
RECURSIVE NodesOfBlocks(_)
NodesOfBlocks(bs) ==
  IF bs = <<>> THEN {} ELSE NodesOfBlock(Head(bs)) \cup NodesOfBlocks(Tail(bs))
NodesOfBlock(b) ==
  {b.param, b.ret}
    \cup {b.nodes[i] : i \in DOMAIN b.nodes}
    \cup UNION {NodesOfBlocks(b.nodes[i].blocks) : i \in DOMAIN b.nodes}

AllNodes(g) == NodesOfBlock(g.block)

\* Value::node()
NodeOf(g, v) ==
  CHOOSE n \in AllNodes(g) : \E i \in DOMAIN n.outputs : n.outputs[i] = v
NodeById(g, id) == CHOOSE n \in AllNodes(g) : n.id = id
AllValues(g) == UNION {{n.outputs[i] : i \in DOMAIN n.outputs} : n \in AllNodes(g)}

\* Value::uses().size()
Uses(g, v) ==
  Cardinality(UNION {{<<n.id, i>> : i \in {j \in DOMAIN n.inputs : n.inputs[j] = v}}
                       : n \in AllNodes(g)})

----------------------------------------------------------------------------
(* Input graphs, as PreprocessGraph hands them to the emitter: unused      *)
(* values are consumed by a prim::Drop, the last use of a value that has   *)
(* a register is made in the block that defines it (LastUsesInserted       *)
(* below), and can_emit_inline holds the single-output, single-use nodes   *)
(* that sit in tree order just before their use (never a Param, a          *)
(* Constant or a BailOut).                                                 *)

\* a node of the default case of emitNode, with the operator found for it
OpOf(id, operator, inputs, outputs) ==
  [Node(id, "Op", inputs, outputs, <<>>) EXCEPT !.op = operator]
\* an operator whose schema declares no arguments with defaults
Op(id, inputs, outputs) ==
  OpOf(id, Operator("aten::op", "", FALSE, <<>>), inputs, outputs)
Constant(id, out) == Node(id, "Constant", <<>>, <<out>>, <<>>)
Drop(id, inputs) == Node(id, "Drop", inputs, <<>>, <<>>)
BailOut(id, inputs, out) == Node(id, "BailOut", inputs, <<out>>, <<>>)
CallFunction(id, inputs, out) == Node(id, "CallFunction", inputs, <<out>>, <<>>)
TypeCheck(id, inputs, outputs) == Node(id, "TypeCheck", inputs, outputs, <<>>)
Warn(id, inputs) == Node(id, "Warn", inputs, <<>>, <<>>)

\* z = if (cond) a+b else a-b; return z, a, b
\* values: 1 cond, 2 a, 3 b, 4 a+b, 5 a-b, 6 z
GraphIf ==
  Graph(Block(1, 1, <<1, 2, 3>>,
          <<Node(2, "If", <<1>>, <<6>>,
              <<Block(2, 3, <<>>, <<Op(4, <<2, 3>>, <<4>>)>>, 5, <<4>>),
                Block(3, 6, <<>>, <<Op(7, <<2, 3>>, <<5>>)>>, 8, <<5>>)>>)>>,
          9, <<6, 2, 3>>),
        {2, 4, 7})

\* the same If with z returned twice: the If is lowered at block level
GraphIfStored ==
  Graph(Block(1, 1, <<1, 2, 3>>,
          <<Node(2, "If", <<1>>, <<6>>,
              <<Block(2, 3, <<>>, <<Op(4, <<2, 3>>, <<4>>)>>, 5, <<4>>),
                Block(3, 6, <<>>, <<Op(7, <<2, 3>>, <<5>>)>>, 8, <<5>>)>>)>>,
          9, <<6, 6, 2, 3>>),
        {4, 7})

\* a loop that carries x: values 1 x, 2 trip count, 3 condition,
\* 4 i, 5 x in the body, 7 f(x), 6 the loop's output
GraphLoop ==
  Graph(Block(1, 1, <<1>>,
          <<Constant(2, 2), Constant(3, 3),
            Node(4, "Loop", <<2, 3, 1>>, <<6>>,
              <<Block(2, 5, <<4, 5>>,
                  <<Drop(6, <<4>>), Op(7, <<5>>, <<7>>)>>,
                  8, <<3, 7>>)>>)>>,
          9, <<6>>),
        {4, 7})

\* a loop without loop-carried values whose body reads x of the enclosing
\* block: values 1 x, 2 trip count, 3 condition, 4 i, 5 g(x)
GraphLoopNoCarried ==
  Graph(Block(1, 1, <<1>>,
          <<Constant(2, 2), Constant(3, 3),
            Node(4, "Loop", <<2, 3>>, <<>>,
              <<Block(2, 5, <<4>>,
                  <<Drop(6, <<4>>), Op(7, <<1>>, <<5>>), Drop(8, <<5>>)>>,
                  9, <<3>>)>>)>>,
          10, <<1>>),
        {7})

\* one guard on a value used nowhere else, the graph returns a constant:
\* values 1 x, 2 the bailout template, 3 the guarded x, 4 the constant
GraphGuard ==
  Graph(Block(1, 1, <<1>>,
          <<Op(2, <<>>, <<2>>), BailOut(3, <<2, 1>>, 3), Drop(4, <<3>>),
            Constant(5, 4)>>,
          6, <<4>>),
        {2})

\* two guards with further live inputs, the second on an inlined f(x', y):
\* values 1 x, 2 y, 3 template, 4 guarded x, 5 f, 6 guarded f
GraphTwoGuards ==
  Graph(Block(1, 1, <<1, 2>>,
          <<Op(2, <<>>, <<3>>), BailOut(3, <<3, 1, 2>>, 4),
            Op(4, <<4, 2>>, <<5>>), BailOut(5, <<3, 5, 4, 2>>, 6)>>,
          6, <<6, 4>>),
        {4})

\* a guard inside the true branch of an If that is inlined as the guarded
\* input of a second guard: values 1 c, 2 x, 3 template, 4 guarded x,
\* 5 h(x), 7 the If's output, 8 guarded output
GraphIfGuard ==
  Graph(Block(1, 1, <<1, 2>>,
          <<Op(2, <<>>, <<3>>),
            Node(3, "If", <<1>>, <<7>>,
              <<Block(2, 4, <<>>, <<BailOut(5, <<3, 2>>, 4)>>, 6, <<4>>),
                Block(3, 7, <<>>, <<Op(8, <<2>>, <<5>>)>>, 9, <<5>>)>>),
            BailOut(10, <<3, 7, 2>>, 8)>>,
          11, <<8>>),
        {3, 8})

\* a guard inside the true branch of an If that is inlined as a live input
\* of a second guard, after the guarded input: values 1 c, 2 x,
\* 3 template, 4 guarded x, 5 h(x), 7 the If's output, 8 guarded x
GraphGuardLive ==
  Graph(Block(1, 1, <<1, 2>>,
          <<Op(2, <<>>, <<3>>),
            Node(3, "If", <<1>>, <<7>>,
              <<Block(2, 4, <<>>, <<BailOut(5, <<3, 2>>, 4)>>, 6, <<4>>),
                Block(3, 7, <<>>, <<Op(8, <<2>>, <<5>>)>>, 9, <<5>>)>>),
            BailOut(10, <<3, 2, 7>>, 8)>>,
          11, <<8>>),
        {3, 8})

\* a guard inside a loop body: values 1 x, 2 template, 3 trip count,
\* 4 condition, 5 i, 6 x in the body, 7 guarded x, 8 the loop's output
GraphLoopGuard ==
  Graph(Block(1, 1, <<1>>,
          <<Op(2, <<>>, <<2>>), Constant(3, 3), Constant(4, 4),
            Node(5, "Loop", <<3, 4, 1>>, <<8>>,
              <<Block(2, 6, <<5, 6>>,
                  <<Drop(7, <<5>>), BailOut(8, <<2, 6, 1>>, 7)>>,
                  9, <<4, 7>>)>>)>>,
          10, <<8, 1, 2>>),
        {5})

\* a node with two outputs, one dropped, and values used more than once:
\* values 1 x, 2 and 3 the outputs of f(x, x), 4 g
GraphDrop ==
  Graph(Block(1, 1, <<1>>,
          <<Op(2, <<1, 1>>, <<2, 3>>), Drop(3, <<3>>), Op(4, <<2>>, <<4>>)>>,
          5, <<4, 2, 4>>),
        {})

\* the graph the register-table driver works on: values 1 x (two uses),
\* 2 y (one use), 3 a constant c (two uses), 4 f(x, c), emitted inline at
\* its single use, 5 g(f, x, y, c)
GraphUnit ==
  Graph(Block(1, 1, <<1, 2>>,
          <<Constant(2, 3), Op(3, <<1, 3>>, <<4>>),
            Op(4, <<4, 1, 2, 3>>, <<5>>)>>,
          5, <<5>>),
        {3})

\* f(g(x), x) with g(x) and the call of f emitted inline: values 1 x,
\* 2 the function f, 3 the function g, 4 g(x), 5 f(g(x), x)
GraphCall ==
  Graph(Block(1, 1, <<1>>,
          <<FnConstant(2, 2), FnConstant(3, 3),
            CallFunction(4, <<3, 1>>, 4), CallFunction(5, <<2, 4, 1>>, 5)>>,
          6, <<5>>),
        {4, 5})

\* a type check of the output of an inlined If whose true branch holds a
\* guard: values 1 c, 2 x, 3 template, 4 guarded x, 5 h(x, k), 6 the
\* constant k, 7 the If's output, 8 and 9 the checked values (9 unused),
\* 10 the result of the check
GraphTypeCheck ==
  Graph(Block(1, 1, <<1, 2>>,
          <<Op(2, <<>>, <<3>>), Constant(12, 6),
            Node(3, "If", <<1>>, <<7>>,
              <<Block(2, 4, <<>>, <<BailOut(5, <<3, 2>>, 4)>>, 6, <<4>>),
                Block(3, 7, <<>>, <<Op(8, <<2, 6>>, <<5>>)>>, 9, <<5>>)>>),
            TypeCheck(10, <<7, 2>>, <<8, 9, 10>>), Drop(13, <<9>>)>>,
          11, <<10, 8, 3>>),
        {3, 8})

\* an If emitted inline whose false branch holds a guard with a live input:
\* values 1 c, 2 x, 3 template, 4 h(x), 5 guarded x, 7 the If's output
GraphIfElseGuard ==
  Graph(Block(1, 1, <<1, 2>>,
          <<Op(2, <<>>, <<3>>),
            Node(3, "If", <<1>>, <<7>>,
              <<Block(2, 4, <<>>, <<Op(5, <<2>>, <<4>>)>>, 6, <<4>>),
                Block(3, 7, <<>>, <<BailOut(8, <<3, 2, 1>>, 5)>>, 9, <<5>>)>>)>>,
          10, <<7, 1, 2, 3>>),
        {3, 5})

\* a warning whose message is computed inline from x and a constant:
\* values 1 x, 2 the message, 3 the constant
GraphWarn ==
  Graph(Block(1, 1, <<1>>,
          <<Constant(5, 3), Op(2, <<1, 3>>, <<2>>), Warn(3, <<2, 1>>)>>,
          4, <<1>>),
        {2})

\* a node of a kind emitNode has no case for and no operator is registered
\* for, in the true branch of an If emitted inline: values 1 c, 2 x,
\* 3 f(x), 4 the unknown node's output, 5 h(x), 6 the If's output
GraphUnknown ==
  Graph(Block(1, 1, <<1, 2>>,
          <<Op(2, <<2>>, <<3>>),
            Node(3, "If", <<1>>, <<6>>,
              <<Block(2, 4, <<>>,
                  <<OpOf(5, NoOperator, <<3, 2>>, <<4>>)>>, 6, <<4>>),
                Block(3, 7, <<>>, <<Op(8, <<2>>, <<5>>)>>, 9, <<5>>)>>)>>,
          10, <<6, 3, 2>>),
        {3, 5, 8})

\* Calls of every kind and an isinstance: self.run(self.forward(x)) with
\* forward a method of a class (emitted inline as an argument) and run a
\* method of an interface, a fork that takes the result and x, and an
\* isinstance with two types whose input is an If emitted inline that
\* holds a guard.  Values: 1 self, 2 x, 3 c, 4 the bailout template,
\* 5 self.forward(x), 6 self.run(...), 7 the future, 8 guarded x, 9 h(x),
\* 10 the If's output, 11 the result of isinstance
GraphMethods ==
  Graph(Block(1, 1, <<1, 2, 3>>,
          <<Op(2, <<>>, <<4>>),
            [Node(3, "CallMethod", <<1, 2>>, <<5>>, <<>>)
               EXCEPT !.name = "forward", !.class_type = TRUE],
            [Node(4, "CallMethod", <<1, 5>>, <<6>>, <<>>)
               EXCEPT !.name = "run"],
            Node(5, "fork", <<6, 2>>, <<7>>, <<>>),
            Node(6, "If", <<3>>, <<10>>,
              <<Block(2, 7, <<>>, <<BailOut(8, <<4, 2>>, 8)>>, 9, <<8>>),
                Block(3, 10, <<>>, <<Op(11, <<2>>, <<9>>)>>, 12, <<9>>)>>),
            [Node(13, "isinstance", <<10>>, <<11>>, <<>>)
               EXCEPT !.types = 2]>>,
          14, <<11, 7, 2, 4>>),
        {3, 6, 11, 13})

\* two prim::DifferentiableGraph nodes around an aten operator: values 1 x,
\* 2 f(x), 3 g(f), 4 h(g)
GraphDifferentiable ==
  Graph(Block(1, 1, <<1>>,
          <<OpOf(2, Operator("prim::DifferentiableGraph", "", FALSE, <<>>),
                 <<1>>, <<2>>),
            Op(3, <<2>>, <<3>>),
            OpOf(4, Operator("prim::DifferentiableGraph", "", FALSE, <<>>),
                 <<3>>, <<4>>)>>,
          5, <<4>>),
        {})

\* The graphs compiled for mobile.  aten::foo.str(a, b = B, c = C) is called
\* twice, once in the root block and once inside an If; each call passes as
\* b and c the constant that is the default ("default"), another constant
\* ("other") or a value that is no constant ("value").  The false branch of
\* the If calls a vararg operator, the root block an operator without
\* overload name, a vararg operator that has no Operation, and aten::warn,
\* which has a schema of its own.  Values: 1 x, 2 cond, 3 the constant B,
\* 4 the constant C, 5 another constant, 6 the first call, 7 the second
\* call, 8 the vararg call, 9 the If's output, 10 and 11 further calls
GraphMobile(first, second) ==
  LET Foo == Operator("aten::foo", "str", FALSE,
                      <<<<>>, <<toIValue(3)>>, <<toIValue(4)>>>>)
      Format == Operator("aten::format", "", TRUE, <<>>)
      Varargs == [Operator("prim::varargs", "", TRUE, <<>>)
                    EXCEPT !.hasOperation = FALSE]
      WarnOp == Operator("aten::warn", "", FALSE, <<<<>>, <<toIValue(4)>>>>)
      Actual(choice, default) ==
        CASE choice = "default" -> default
          [] choice = "other"   -> 5
          [] choice = "value"   -> 1
  IN Graph(Block(1, 1, <<1, 2>>,
             <<Constant(2, 3), Constant(3, 4), Constant(4, 5),
               OpOf(5, Foo, <<1, Actual(first[1], 3), Actual(first[2], 4)>>,
                    <<6>>),
               Node(6, "If", <<2>>, <<9>>,
                 <<Block(2, 7, <<>>,
                     <<OpOf(8, Foo, <<6, Actual(second[1], 3),
                                      Actual(second[2], 4)>>, <<7>>)>>,
                     9, <<7>>),
                   Block(3, 10, <<>>,
                     <<OpOf(11, Format, <<6, 1>>, <<8>>)>>, 12, <<8>>)>>),
               Op(13, <<9, 5>>, <<10>>),
               OpOf(14, Varargs, <<10, 6>>, <<11>>),
               [Warn(15, <<11, 4>>) EXCEPT !.op = WarnOp]>>,
             16, <<1>>),
           {6, 8, 11, 13, 14})

\* Guards at every nesting depth: the root block and every nested block
\* hold a guard on x before and after the next nested block; the nested
\* node is an If (even depth) or a Loop (odd depth).  Every BailOut has k
\* live inputs after the guarded one.  Values: 1 c, 2 x, 5 template,
\* 6 trip count, 7 condition, 100 + j the j-th live input; the nodes of
\* depth d are numbered from 10 * (d + 1).
Live(k) == [j \in 1..k |-> 100 + j]

RECURSIVE NestedBody(_, _)
NestedBody(d, k) ==
  LET b == 10 * (d + 1)
      inner ==
        IF d = 0 THEN <<>>
        ELSE IF d % 2 = 0
        THEN <<Node(b + 5, "If", <<1>>, <<>>,
                 <<Block(b, b + 6, <<>>, NestedBody(d - 1, k), b + 7, <<>>),
                   Block(b + 1, b + 8, <<>>, <<>>, b + 9, <<>>)>>)>>
        ELSE <<Node(b + 5, "Loop", <<6, 7>>, <<>>,
                 <<Block(b, b + 6, <<b + 6>>,
                     <<Drop(b + 8, <<b + 6>>)>> \o NestedBody(d - 1, k),
                     b + 7, <<7>>)>>)>>
  IN <<BailOut(b + 1, <<5, 2>> \o Live(k), b + 1), Drop(b + 2, <<b + 1>>)>>
       \o inner
       \o <<BailOut(b + 3, <<5, 2>> \o Live(k), b + 3), Drop(b + 4, <<b + 3>>)>>

GraphNested(d, k) ==
  Graph(Block(1, 1, <<1, 2>> \o Live(k),
          <<Op(2, <<>>, <<5>>), Constant(3, 6), Constant(4, 7)>>
            \o NestedBody(d, k),
          5, <<2>>),
        {})

\* graph_ is a pointer to the graph: a handle here
Handle(name, d, k) == [name |-> name, d |-> d, k |-> k]

Deref(h) ==
  CASE h.name = "If"            -> GraphIf
    [] h.name = "IfStored"      -> GraphIfStored
    [] h.name = "Loop"          -> GraphLoop
    [] h.name = "LoopNoCarried" -> GraphLoopNoCarried
    [] h.name = "Guard"         -> GraphGuard
    [] h.name = "TwoGuards"     -> GraphTwoGuards
    [] h.name = "IfGuard"       -> GraphIfGuard
    [] h.name = "LoopGuard"     -> GraphLoopGuard
    [] h.name = "Drop"          -> GraphDrop
    [] h.name = "Unit"          -> GraphUnit
    [] h.name = "Call"          -> GraphCall
    [] h.name = "TypeCheck"     -> GraphTypeCheck
    [] h.name = "Warn"          -> GraphWarn
    [] h.name = "IfElseGuard"   -> GraphIfElseGuard
    [] h.name = "Unknown"       -> GraphUnknown
    [] h.name = "Methods"       -> GraphMethods
    [] h.name = "GuardLive"     -> GraphGuardLive
    [] h.name = "Differentiable" -> GraphDifferentiable
    [] h.name = "Mobile"        -> GraphMobile(h.d, h.k)
    [] h.name = "Nested"        -> GraphNested(h.d, h.k)

Graphs ==
  {Handle(n, 0, 0) : n \in {"If", "IfStored", "Loop", "LoopNoCarried", "Guard",
                            "TwoGuards", "IfGuard", "LoopGuard", "Drop",
                            "Unit", "Call", "TypeCheck", "Warn",
                            "IfElseGuard", "Unknown", "Methods"}}
    \cup {Handle("Nested", d, k) : d \in 0..MaxDepth, k \in 0..MaxExtra}

----------------------------------------------------------------------------
(* CodeImpl: the record of its fields, and its member functions.  A member *)
(* function is an operator from the record to the record; the statements   *)
(* of a function that follow a call are the operator the result of that    *)
(* call is handed to.  A returned value is left in the field ret.          *)

\* graph_ of the record is the graph itself
Self ==
  [graph_ |-> Deref(graph_), instructions_ |-> instructions_,
   instructions_source_ |-> instructions_source_,
   constant_table_ |-> constant_table_, operator_table_ |-> operator_table_,
   function_table_ |-> function_table_, type_table_ |-> type_table_,
   register_size_ |-> register_size_, value_to_reg_ |-> value_to_reg_,
   use_count_ |-> use_count_, current_node_ |-> current_node_,
   last_inserted_op_ |-> last_inserted_op_,
   bailout_blocks_ |-> bailout_blocks_,
   FLAGS_torch_jit_disable_warning_prints |->
     FLAGS_torch_jit_disable_warning_prints,
   op_to_num_specified_args_ |-> op_to_num_specified_args_,
   dynamic_type |-> dynamic_type,
   err |-> "none", ret |-> ret]

\* an exception unwinds the call: every later statement is skipped
Ok(s) == s.err = "none"
Throw(s, e) == [s EXCEPT !.err = e]
Return(s, v) == IF Ok(s) THEN [s EXCEPT !.ret = v] ELSE s

EmptyMap == [x \in {} |-> 0]
Put(f, k, v) == [x \in DOMAIN f \cup {k} |-> IF x = k THEN v ELSE f[x]]

\* safe_narrow_cast<int32_t, int64_t>: every integer of the model lies in
\* the int32 range, where the cast gives the value back
safe_narrow_cast_int32(v) == v
\* faulty variant of safe_narrow_cast_uint16: the value kept as it is
safe_narrow_cast_uint16_wide(v) == v

\* safe_narrow_cast<uint16_t, uint64_t>: on overflow it warns and returns v,
\* which the uint16_t return type truncates again
safe_narrow_cast_uint16(v) == v % 65536

Instruction(op, X, N) == [op |-> op, X |-> X, N |-> N]

\* Node::isAfter within one block
isAfter(g, a, b) == NodeById(g, a).topo > NodeById(g, b).topo

\* faulty variant of insertInstruction_check: owningBlock() not compared
insertInstruction_check_any_block(s, op) ==
  IF op # "OP" THEN s
  ELSE IF /\ s.last_inserted_op_ # NoNode
          /\ s.current_node_ # s.last_inserted_op_
          /\ ~isAfter(s.graph_, s.current_node_, s.last_inserted_op_)
       THEN Throw(s, "assert")
       ELSE [s EXCEPT !.last_inserted_op_ = s.current_node_]

\* insertInstruction: the check that OPs are emitted in topological order
insertInstruction_check(s, op) ==
  IF op # "OP" THEN s
  ELSE IF /\ s.last_inserted_op_ # NoNode
          /\ s.current_node_ # s.last_inserted_op_
          /\ NodeById(s.graph_, s.current_node_).owner
               = NodeById(s.graph_, s.last_inserted_op_).owner
          /\ ~isAfter(s.graph_, s.current_node_, s.last_inserted_op_)
       THEN Throw(s, "assert")
       ELSE [s EXCEPT !.last_inserted_op_ = s.current_node_]

insertInstruction(s, op, X, N) ==
  IF ~Ok(s) THEN s
  ELSE insertInstruction_check(
         [s EXCEPT !.instructions_ =
                      Append(@, Instruction(op, safe_narrow_cast_int32(X),
                                            safe_narrow_cast_uint16(N))),
                   !.instructions_source_ = Append(@, s.current_node_)],
         op)

truncateInstructions(s, size) ==
  IF ~Ok(s) \/ Len(s.instructions_) <= size THEN s
  ELSE [s EXCEPT !.instructions_ = SubSeq(@, 1, size),
                 !.instructions_source_ = SubSeq(@, 1, size)]

BailoutBlock(jf_index) == [jf_instruction_index |-> jf_index, instructions |-> <<>>]

\* faulty variant of createBailoutBlock: instructions_ is not truncated
createBailoutBlock_no_truncate(s, jf_index) ==
  IF ~Ok(s) THEN s
  ELSE [s EXCEPT !.bailout_blocks_ =
          Append(@, [BailoutBlock(jf_index) EXCEPT
                       !.instructions =
                          SubSeq(s.instructions_, jf_index + 2,
                                 Len(s.instructions_))])]

createBailoutBlock(s, jf_index) ==
  IF ~Ok(s) THEN s
  ELSE truncateInstructions(
         [s EXCEPT !.bailout_blocks_ =
            Append(@, [BailoutBlock(jf_index) EXCEPT
                         !.instructions =
                            SubSeq(s.instructions_, jf_index + 2,
                                   Len(s.instructions_))])],
         jf_index + 1)

\* faulty variant of allocRegs_one: value_to_reg_[v] = register_size_ + 1,
\* the counter left as it was
allocRegs_one_no_increment(s, v) ==
  IF v \in DOMAIN s.value_to_reg_
  THEN Throw(s, "assert")
  ELSE [s EXCEPT !.value_to_reg_ = Put(@, v, s.register_size_ + 1)]

\* allocRegs, one turn of the loop: AT_ASSERT(value_to_reg_.count(v) == 0);
\* value_to_reg_[v] = ++register_size_
allocRegs_one(s, v) ==
  IF v \in DOMAIN s.value_to_reg_
  THEN Throw(s, "assert")
  ELSE [s EXCEPT !.register_size_ = @ + 1,
                 !.value_to_reg_ = Put(@, v, s.register_size_ + 1)]

\* allocRegs, the loop over vs: the assertion leaves the earlier entries made
RECURSIVE allocRegs_loop(_, _)
allocRegs_loop(s, vs) ==
  IF ~Ok(s) \/ vs = <<>> THEN s
  ELSE allocRegs_loop(allocRegs_one(s, Head(vs)), Tail(vs))

\* faulty variant of allocRegs: result read after the loop
allocRegs_result_after(s, vs) ==
  IF ~Ok(s) THEN s
  ELSE Return(allocRegs_loop(s, vs), allocRegs_loop(s, vs).register_size_)

allocRegs(s, vs) ==
  IF ~Ok(s) THEN s
  ELSE Return(allocRegs_loop(s, vs), s.register_size_ + 1)

\* faulty variant of registerFor: value_to_reg_[v], which creates the entry
registerFor_default(s, v) ==
  IF ~Ok(s) THEN s
  ELSE IF v \in DOMAIN s.value_to_reg_
       THEN Return(s, s.value_to_reg_[v])
       ELSE Return([s EXCEPT !.value_to_reg_ = Put(@, v, 0)], 0)

\* registerFor: value_to_reg_.at(v) throws std::out_of_range
registerFor(s, v) ==
  IF ~Ok(s) THEN s
  ELSE IF v \in DOMAIN s.value_to_reg_
       THEN Return(s, s.value_to_reg_[v])
       ELSE Throw(s, "out_of_range")

insertConstant(s, value) ==
  IF ~Ok(s) THEN s
  ELSE [s EXCEPT !.constant_table_ = Append(@, value),
                 !.ret = Len(s.constant_table_)]

emitType(s, t) ==
  IF ~Ok(s) THEN s
  ELSE [s EXCEPT !.type_table_ = Append(@, t), !.ret = Len(s.type_table_)]

\* faulty variant of emitConstant_store: constant_table_.size() read after
\* the insertion
emitConstant_store_size(s, v) ==
  IF ~Ok(s) THEN s
  ELSE [s EXCEPT !.value_to_reg_ = Put(@, v, Len(s.constant_table_))]

\* emitConstant: value_to_reg_[node->output()] = the index insertConstant
\* returned
emitConstant_store(s, v) ==
  IF ~Ok(s) THEN s ELSE [s EXCEPT !.value_to_reg_ = Put(@, v, s.ret)]

emitConstant(s, node) ==
  IF ~Ok(s) \/ node.fn THEN s
  ELSE emitConstant_store(insertConstant(s, toIValue(node.outputs[1])),
                          node.outputs[1])

\* faulty variant of emitStoreOutputs_store: STOREN whatever N
emitStoreOutputs_store_n(s, N) == insertInstruction(s, "STOREN", s.ret, N)

\* emitStoreOutputs after int regs = allocRegs(node->outputs())
emitStoreOutputs_store(s, N) ==
  IF N = 1
  THEN insertInstruction(s, "STORE", s.ret, 0)
  ELSE insertInstruction(s, "STOREN", s.ret, N)

emitStoreOutputs(s, node) ==
  IF ~Ok(s) \/ Len(node.outputs) = 0 THEN s
  ELSE emitStoreOutputs_store(allocRegs(s, node.outputs), Len(node.outputs))

\* faulty variant of PatchX: the absolute index stored on top of the offset
PatchX_absolute(s, i, x) ==
  IF ~Ok(s) THEN s ELSE [s EXCEPT !.instructions_[i + 1].X = x + i]

\* instructions_[i].X = x (i counted from 0)
PatchX(s, i, x) ==
  IF ~Ok(s) THEN s ELSE [s EXCEPT !.instructions_[i + 1].X = x]

\* emitNode and emitCodeForBlock call each other through the emit
\* functions: emit(s, "emitNode", node) and emit(s, "emitCodeForBlock", block)
\* are those recursive calls
RECURSIVE emit(_, _, _)

\* use_count_[input], which operator[] creates as 0
use_count_at(s, input) ==
  IF input \in DOMAIN s.use_count_ THEN s.use_count_[input] ELSE 0

\* faulty variant of emitUse_op: uses().size() == use_count_[input]++
emitUse_op_post_increment(s, input, drop) ==
  IF drop THEN "DROPR"
  ELSE IF NodeOf(s.graph_, input).kind = "Constant" THEN "LOADC"
  ELSE IF Uses(s.graph_, input) = use_count_at(s, input) - 1 THEN "MOVE"
  ELSE "LOAD"

\* faulty variant of emitUse_op: the first use moves the value
emitUse_op_move_first(s, input, drop) ==
  IF drop THEN "DROPR"
  ELSE IF NodeOf(s.graph_, input).kind = "Constant" THEN "LOADC"
  ELSE IF use_count_at(s, input) = 1 THEN "MOVE"
  ELSE "LOAD"

\* faulty variant of emitUse_op: the kind of the node is not looked at
emitUse_op_no_loadc(s, input, drop) ==
  IF drop THEN "DROPR"
  ELSE IF Uses(s.graph_, input) = use_count_at(s, input) THEN "MOVE"
  ELSE "LOAD"

\* emitUse: the opcode chosen once use_count_[input] has been incremented
emitUse_op(s, input, drop) ==
  IF drop THEN "DROPR"
  ELSE IF NodeOf(s.graph_, input).kind = "Constant" THEN "LOADC"
  ELSE IF Uses(s.graph_, input) = use_count_at(s, input) THEN "MOVE"
  ELSE "LOAD"

\* emitUse, not inline, after ++use_count_[input]: insertInstruction(op, reg)
emitUse_insert(s, input, drop, reg) ==
  insertInstruction(s, emitUse_op(s, input, drop), reg, 0)

\* emitUse, not inline, after int reg = registerFor(input)
emitUse_register(s, input, drop) ==
  IF ~Ok(s) THEN s
  ELSE emitUse_insert(
         [s EXCEPT !.use_count_ = Put(@, input, use_count_at(s, input) + 1)],
         input, drop, s.ret)

\* emitUse, inline, after emitNode(input->node())
emitUse_inline(s, drop) ==
  IF drop THEN insertInstruction(s, "DROP", 0, 0) ELSE s

emitUse(s, input, drop) ==
  IF ~Ok(s) THEN s
  ELSE IF NodeOf(s.graph_, input).id \in s.graph_.can_emit_inline
       THEN emitUse_inline(emit(s, "emitNode", NodeOf(s.graph_, input)), drop)
       ELSE emitUse_register(registerFor(s, input), input, drop)

RECURSIVE emitLoadInputs(_, _)
emitLoadInputs(s, inputs) ==
  IF ~Ok(s) \/ inputs = <<>> THEN s
  ELSE emitLoadInputs(emitUse(s, Head(inputs), FALSE), Tail(inputs))

RECURSIVE emitDrop(_, _)
emitDrop(s, to_drop) ==
  IF ~Ok(s) \/ to_drop = <<>> THEN s
  ELSE emitDrop(emitUse(s, Head(to_drop), TRUE), Tail(to_drop))

\* node->getOperator() / op.getOperation(node)
getOperation(node) == <<"operation", node.id>>

\* emitOperator: operator_table_.emplace_back(op.getOperation(node))
emitOperator_table(s, node) ==
  IF ~Ok(s) THEN s
  ELSE [s EXCEPT !.operator_table_ = Append(@, getOperation(node))]

\* emitOperator: OPN with the number of inputs for a vararg schema, else OP
emitOperator_insert(s, node, index) ==
  IF node.op.hasOperation /\ node.op.is_vararg
  THEN insertInstruction(s, "OPN", index, Len(node.inputs))
  ELSE insertInstruction(s, "OP", index, 0)

\* faulty variant of emitOperator_op: the node is given no instruction
\* when no operator is found for it
emitOperator_op_skip_unknown(s, node) ==
  IF ~Ok(s) \/ ~node.op.found THEN s
  ELSE emitOperator_table(
         emitOperator_insert(s, node, Len(s.operator_table_)), node)

\* emitOperator after emitLoadInputs(node->inputs()): node->getOperator()
\* throws when no operator is registered for the node
emitOperator_op(s, node) ==
  IF ~Ok(s) THEN s
  ELSE IF ~node.op.found THEN Throw(s, "no_operator")
  ELSE emitOperator_table(
         emitOperator_insert(s, node, Len(s.operator_table_)), node)

\* faulty variant of emitOperator: operator_table_.size() read before the
\* inputs are loaded
emitOperator_index_first(s, node) ==
  IF ~node.op.found THEN emitOperator_op(emitLoadInputs(s, node.inputs), node)
  ELSE emitOperator_table(
         emitOperator_insert(emitLoadInputs(s, node.inputs), node,
                             Len(s.operator_table_)),
         node)

emitOperator(s, node) == emitOperator_op(emitLoadInputs(s, node.inputs), node)

\* emitLoadInputs(inputs, num_include): the first num_include inputs
RECURSIVE emitLoadInputs_num_include(_, _, _, _)
emitLoadInputs_num_include(s, inputs, num_include, count) ==
  IF ~Ok(s) \/ inputs = <<>> THEN s
  ELSE IF count < num_include
       THEN emitLoadInputs_num_include(emitUse(s, Head(inputs), FALSE),
                                       Tail(inputs), num_include, count + 1)
       ELSE emitLoadInputs_num_include(s, Tail(inputs), num_include, count)

\* the key of op_to_num_specified_args_ for a schema
unique_name(op) ==
  IF op.overload_name # "" THEN op.name \o "." \o op.overload_name
  ELSE op.name

\* faulty variant of MobileCodeImpl_emitOperator: the inputs after the
\* recorded number of specified arguments are not loaded
MobileCodeImpl_emitOperator_num_include(s, node) ==
  IF ~node.op.found \/ (node.op.hasOperation /\ node.op.is_vararg)
  THEN emitOperator(s, node)
  ELSE emitOperator_op(
         emitLoadInputs_num_include(
           s, node.inputs,
           IF unique_name(node.op) \in DOMAIN s.op_to_num_specified_args_
           THEN s.op_to_num_specified_args_[unique_name(node.op)]
           ELSE Len(node.inputs),
           0),
         node)

\* faulty variant of MobileCodeImpl_emitOperator: no input is loaded for an
\* operator that is absent from op_to_num_specified_args_
MobileCodeImpl_emitOperator_absent_none(s, node) ==
  IF unique_name(node.op) \in DOMAIN s.op_to_num_specified_args_
  THEN emitOperator(s, node)
  ELSE emitOperator_op(s, node)

\* MobileCodeImpl::emitOperator: CodeImpl::emitOperator(node)
MobileCodeImpl_emitOperator(s, node) == emitOperator(s, node)

\* the virtual call emitOperator(node) of emitNode
emitOperator_virtual(s, node) ==
  IF s.dynamic_type = "MobileCodeImpl"
  THEN MobileCodeImpl_emitOperator(s, node)
  ELSE emitOperator(s, node)

\* faulty variant of emitIf_end: the JMP offset counted from start_else
emitIf_end_from_else(s, start_else) ==
  IF ~Ok(s) THEN s
  ELSE PatchX(s, start_else - 1, Len(s.instructions_) - start_else)

\* emitIf: the patch of the JMP after the else block
emitIf_end(s, start_else) ==
  IF ~Ok(s) THEN s
  ELSE PatchX(s, start_else - 1, Len(s.instructions_) - (start_else - 1))

\* faulty variant of emitIf_else: the JF offset counted from the instruction
\* after the JF
emitIf_else_after_jf(s, node, start_if) ==
  IF ~Ok(s) THEN s
  ELSE emitIf_end(
         emit(PatchX(s, start_if, Len(s.instructions_) - start_if - 1),
              "emitCodeForBlock", node.blocks[2]),
         Len(s.instructions_))

\* emitIf after insertInstruction(JMP, 0): start_else = instructions_.size()
emitIf_else(s, node, start_if) ==
  IF ~Ok(s) THEN s
  ELSE emitIf_end(
         emit(PatchX(s, start_if, Len(s.instructions_) - start_if),
              "emitCodeForBlock", node.blocks[2]),
         Len(s.instructions_))

\* emitIf after emitCodeForBlock(node->blocks().at(0))
emitIf_jmp(s, node, start_if) ==
  IF ~Ok(s) THEN s
  ELSE emitIf_else(insertInstruction(s, "JMP", 0, 0), node, start_if)

\* emitIf after emitLoadInputs: start_if = instructions_.size()
emitIf_then(s, node) ==
  IF ~Ok(s) THEN s
  ELSE emitIf_jmp(
         emit(insertInstruction(s, "JF", 0, 0),
              "emitCodeForBlock", node.blocks[1]),
         node, Len(s.instructions_))

emitIf(s, node) == emitIf_then(emitLoadInputs(s, node.inputs), node)

\* faulty variant of emitLoop_end: the offset counted without the JMP
emitLoop_end_before_jmp(s, start) ==
  IF ~Ok(s) THEN s ELSE PatchX(s, start, Len(s.instructions_) - start - 1)

\* emitLoop: instructions_[start].X = instructions_.size() - start
emitLoop_end(s, start) ==
  IF ~Ok(s) THEN s ELSE PatchX(s, start, Len(s.instructions_) - start)

\* faulty variant of emitLoop_jmp: the index of the LOOP as the X of the JMP
emitLoop_jmp_absolute(s, start) ==
  IF ~Ok(s) THEN s
  ELSE emitLoop_end(insertInstruction(s, "JMP", start, 0), start)

\* emitLoop after emitCodeForBlock(loop->blocks().at(0))
emitLoop_jmp(s, start) ==
  IF ~Ok(s) THEN s
  ELSE emitLoop_end(
         insertInstruction(s, "JMP", start - Len(s.instructions_), 0), start)

\* faulty variant of emitLoop_loop: N without the trip count and the
\* condition
emitLoop_loop_carried_only(s, loop) ==
  IF ~Ok(s) THEN s
  ELSE emitLoop_jmp(
         emit(insertInstruction(s, "LOOP", 0, Len(loop.inputs) - 2),
              "emitCodeForBlock", loop.blocks[1]),
         Len(s.instructions_))

\* emitLoop after emitLoadInputs: start = instructions_.size()
emitLoop_loop(s, loop) ==
  IF ~Ok(s) THEN s
  ELSE emitLoop_jmp(
         emit(insertInstruction(s, "LOOP", 0, Len(loop.inputs)),
              "emitCodeForBlock", loop.blocks[1]),
         Len(s.instructions_))

\* faulty variant of emitLoop_inputs: no LOADC of the constant
emitLoop_inputs_no_loadc(s, loop) ==
  IF ~Ok(s) THEN s ELSE emitLoop_loop(emitLoadInputs(s, loop.inputs), loop)

\* emitLoop after insertConstant(0)
emitLoop_inputs(s, loop) ==
  IF ~Ok(s) THEN s
  ELSE emitLoop_loop(
         emitLoadInputs(insertInstruction(s, "LOADC", s.ret, 0), loop.inputs),
         loop)

emitLoop(s, loop) ==
  IF ~Ok(s) THEN s ELSE emitLoop_inputs(insertConstant(s, 0), loop)

\* the function a prim::CallFunction node calls: the one of the
\* FunctionType of its first input
FunctionOf(node) ==
  IF node.kind = "CallMethod"
  THEN <<"method", node.name>>   \* &class_type->getMethod(node->s(attr::name))
  ELSE <<"function", node.inputs[1]>>

\* emitCall: function_table_.emplace_back(func)
emitCall_table(s, func) ==
  IF ~Ok(s) THEN s ELSE [s EXCEPT !.function_table_ = Append(@, func)]

\* emitCall after emitLoadInputs(inputs)
emitCall_call(s, func) ==
  IF ~Ok(s) THEN s
  ELSE emitCall_table(
         insertInstruction(s, "CALL", Len(s.function_table_), 0), func)

emitCall(s, func, inputs) == emitCall_call(emitLoadInputs(s, inputs), func)

\* faulty variant of emitInterfaceCall: the name is looked up in the
\* function table, as for a static call
emitInterfaceCall_static(s, method_name_str, inputs) ==
  LET loaded == emitLoadInputs(s, inputs)
  IN IF ~Ok(loaded) THEN loaded
     ELSE emitCall_table(
            insertInstruction(loaded, "INTERFACE_CALL",
                              Len(loaded.function_table_), Len(inputs)),
            <<"string", method_name_str>>)

\* emitInterfaceCall: the constant is the IValue of the name
emitInterfaceCall(s, method_name_str, inputs) ==
  LET method_name ==
        insertConstant(emitLoadInputs(s, inputs),
                       <<"string", method_name_str>>)
  IN IF ~Ok(method_name) THEN method_name
     ELSE insertInstruction(method_name, "INTERFACE_CALL", method_name.ret,
                            Len(inputs))

\* emitFork: the GraphFunction "<forked function>" of the Subgraph of the
\* node is appended to function_table_ before the instruction is inserted
emitFork(s, node) ==
  LET loaded == emitLoadInputs(s, node.inputs)
  IN IF ~Ok(loaded) THEN loaded
     ELSE insertInstruction(
            [loaded EXCEPT !.function_table_ = Append(@, <<"forked", node.id>>)],
            "FORK", Len(loaded.function_table_), Len(node.inputs))

\* node->tys(attr::types): of a prim::TypeCheck node one type for each
\* input, of a prim::isinstance node the types of the attribute
tys(node) ==
  [i \in 1..(IF node.kind = "isinstance" THEN node.types
              ELSE Len(node.inputs)) |-> <<"types", node.id, i>>]

\* emitTypeCheck, the loop emitType(types[i])
RECURSIVE emitTypeCheck_types(_, _, _)
emitTypeCheck_types(s, node, i) ==
  IF ~Ok(s) \/ i > Len(node.inputs) THEN s
  ELSE emitTypeCheck_types(emitType(s, tys(node)[i]), node, i + 1)

\* emitTypeCheck after emitLoadInputs: types_start = type_table_.size()
emitTypeCheck_check(s, node) ==
  IF ~Ok(s) THEN s
  ELSE insertInstruction(emitTypeCheck_types(s, node, 1), "TYPECHECK",
                         Len(s.type_table_), Len(node.inputs))

emitTypeCheck(s, node) ==
  IF ~Ok(s) THEN s
  ELSE IF Len(node.inputs) = 0 \/ Len(node.inputs) + 1 # Len(node.outputs)
       THEN Throw(s, "assert")
       ELSE emitTypeCheck_check(emitLoadInputs(s, node.inputs), node)

\* faulty variant of emitIsinstance: types_start read after the loop
emitIsinstance_start_after(s, node) ==
  LET loaded == emitLoadInputs(s, node.inputs)
  IN IF ~Ok(loaded) THEN loaded
     ELSE insertInstruction(
            [loaded EXCEPT !.type_table_ = @ \o tys(node)],
            "ISINSTANCE", Len(loaded.type_table_) + Len(tys(node)),
            Len(tys(node)))

\* emitIsinstance: emitLoadInputs, types_start = type_table_.size(), the
\* loop emitType(typ), insertInstruction(ISINSTANCE, types_start,
\* types.size())
emitIsinstance(s, node) ==
  LET loaded == emitLoadInputs(s, node.inputs)
      RECURSIVE types(_, _)
      types(r, i) ==
        IF ~Ok(r) \/ i > Len(tys(node)) THEN r
        ELSE types(emitType(r, tys(node)[i]), i + 1)
  IN IF ~Ok(loaded) THEN loaded
     ELSE insertInstruction(types(loaded, 1), "ISINSTANCE",
                            Len(loaded.type_table_), Len(tys(node)))

\* emitWarn after emitLoadInputs; the nodes of the model carry no warn_id
\* attribute, so idx stays -1
emitWarn_warn(s) ==
  IF ~Ok(s) THEN s ELSE insertInstruction(s, "WARN", -1, 0)

emitWarn(s, node) ==
  IF ~Ok(s) \/ s.FLAGS_torch_jit_disable_warning_prints THEN s
  ELSE emitWarn_warn(emitLoadInputs(s, node.inputs))

\* faulty variant of emitGuard_jf: JF, then GUARD
emitGuard_jf_first(s) ==
  IF ~Ok(s) THEN s
  ELSE Return(insertInstruction(insertInstruction(s, "JF", 0, 0),
                                "GUARD", s.ret, 0),
              Len(s.instructions_) + 1)

\* emitGuard after emitType: GUARD, JF, return instructions_.size() - 1
emitGuard_jf(s) ==
  IF ~Ok(s) THEN s
  ELSE Return(insertInstruction(insertInstruction(s, "GUARD", s.ret, 0),
                                "JF", 0, 0),
              Len(s.instructions_) + 1)

\* emitGuard after emitLoadInputs(node->inputs().slice(1, 1))
emitGuard_type(s, node) ==
  IF ~Ok(s) THEN s ELSE emitGuard_jf(emitType(s, TypeOf(node.outputs[1])))

\* faulty variant of emitGuard: the guarded input is not loaded
emitGuard_no_load(s, node) == emitGuard_type(s, node)

emitGuard(s, node) ==
  emitGuard_type(emitLoadInputs(s, SubSeq(node.inputs, 2, 2)), node)

\* the GraphFunction "bailout" built for a BailOut node
BailoutFunction(node) == <<"bailout", node.id>>

\* emitBailOut after insertInstruction(TAIL_CALL, function_table_.size())
emitBailOut_block(s, node, jf_index) ==
  IF ~Ok(s) THEN s
  ELSE createBailoutBlock(
         [s EXCEPT !.function_table_ = Append(@, BailoutFunction(node))],
         jf_index)

\* faulty variant of emitBailOut_call: TAIL_CALL without the table index
emitBailOut_call_zero(s, node, jf_index) ==
  IF ~Ok(s) THEN s
  ELSE emitBailOut_block(insertInstruction(s, "TAIL_CALL", 0, 0),
                         node, jf_index)

\* emitBailOut after emitLoadInputs(node->inputs().slice(2))
emitBailOut_call(s, node, jf_index) ==
  IF ~Ok(s) THEN s
  ELSE emitBailOut_block(
         insertInstruction(s, "TAIL_CALL", Len(s.function_table_), 0),
         node, jf_index)

\* faulty variant of emitBailOut_inputs: no TAIL_CALL after the loads
emitBailOut_inputs_no_call(s, node) ==
  IF ~Ok(s) THEN s
  ELSE emitBailOut_block(
         emitLoadInputs(s, SubSeq(node.inputs, 3, Len(node.inputs))),
         node, s.ret)

\* emitBailOut after auto jf_index = emitGuard(node)
emitBailOut_inputs(s, node) ==
  IF ~Ok(s) THEN s
  ELSE emitBailOut_call(
         emitLoadInputs(s, SubSeq(node.inputs, 3, Len(node.inputs))),
         node, s.ret)

emitBailOut(s, node) == emitBailOut_inputs(emitGuard(s, node), node)

\* faulty variant of insertBailoutBlocks_insert: the instructions of the
\* block attributed to the current node, as insertInstruction would
insertBailoutBlocks_insert_current(s, block) ==
  IF ~Ok(s) THEN s
  ELSE [s EXCEPT
          !.instructions_ = @ \o block.instructions,
          !.instructions_source_ =
             @ \o [i \in 1..Len(block.instructions) |-> s.current_node_]]

\* insertBailoutBlocks, the insert at the end of both vectors
insertBailoutBlocks_insert(s, block) ==
  IF ~Ok(s) THEN s
  ELSE [s EXCEPT
          !.instructions_ = @ \o block.instructions,
          !.instructions_source_ =
             @ \o [i \in 1..Len(block.instructions) |->
                     s.instructions_source_[block.jf_instruction_index + 1]]]

\* insertBailoutBlocks, one turn of the loop
insertBailoutBlocks_one(s, block) ==
  IF block.jf_instruction_index >= Len(s.instructions_)
  THEN Throw(s, "undefined")   \* a read past the end of instructions_
  ELSE IF s.instructions_[block.jf_instruction_index + 1].op # "JF"
  THEN Throw(s, "assert")
  ELSE insertBailoutBlocks_insert(
         PatchX(s, block.jf_instruction_index,
                Len(s.instructions_) - block.jf_instruction_index),
         block)

RECURSIVE insertBailoutBlocks_loop(_, _)
insertBailoutBlocks_loop(s, k) ==
  IF ~Ok(s) \/ k > Len(s.bailout_blocks_) THEN s
  ELSE insertBailoutBlocks_loop(
         insertBailoutBlocks_one(s, s.bailout_blocks_[k]), k + 1)

\* faulty variant of insertBailoutBlocks: the blocks walked last to first
insertBailoutBlocks_reversed(s) ==
  insertBailoutBlocks_loop(
    [s EXCEPT !.bailout_blocks_ =
       [k \in 1..Len(@) |-> @[Len(@) + 1 - k]]], 1)

insertBailoutBlocks(s) == insertBailoutBlocks_loop(s, 1)

\* ~WithCurrentNode
WithCurrentNode_restore(s, old_value_) ==
  [s EXCEPT !.current_node_ = old_value_]

\* the switch of emitNode
emitNode_switch(s, node) ==
  CASE node.kind = "Drop"     -> emitDrop(s, node.inputs)
    [] node.kind = "Constant" -> emitConstant(s, node)
    [] node.kind = "If"       -> emitIf(s, node)
    [] node.kind = "Loop"     -> emitLoop(s, node)
    [] node.kind = "Param"    -> s
    [] node.kind = "CallFunction" ->
         emitCall(s, FunctionOf(node), SubSeq(node.inputs, 2, Len(node.inputs)))
    [] node.kind = "CallMethod" ->
         IF node.class_type
         THEN emitCall(s, FunctionOf(node), node.inputs)
         ELSE emitInterfaceCall(s, node.name, node.inputs)
    [] node.kind = "TypeCheck" -> emitTypeCheck(s, node)
    [] node.kind = "BailOut"  -> emitBailOut(s, node)
    [] node.kind = "isinstance" -> emitIsinstance(s, node)
    [] node.kind = "fork"     -> emitFork(s, node)
    [] node.kind = "Warn"     -> emitWarn(s, node)
    [] OTHER                  -> emitOperator_virtual(s, node)

emitNode(s, node) ==
  IF ~Ok(s) THEN s
  ELSE WithCurrentNode_restore(
         emitNode_switch([s EXCEPT !.current_node_ = node.id], node),
         s.current_node_)

\* faulty variant of emitNodeAtBlockLevel_switch: can_emit_inline not read
emitNodeAtBlockLevel_switch_always(s, node) ==
  CASE node.kind = "Constant" -> emitConstant(s, node)
    [] node.kind = "Return"   -> emitLoadInputs(s, node.inputs)
    [] OTHER -> emitStoreOutputs(emit(s, "emitNode", node), node)

\* the switch of emitNodeAtBlockLevel
emitNodeAtBlockLevel_switch(s, node) ==
  CASE node.kind = "Constant" -> emitConstant(s, node)
    [] node.kind = "Return"   -> emitLoadInputs(s, node.inputs)
    [] OTHER ->
         IF node.id \notin s.graph_.can_emit_inline
         THEN emitStoreOutputs(emit(s, "emitNode", node), node)
         ELSE s

emitNodeAtBlockLevel(s, node) ==
  IF ~Ok(s) THEN s
  ELSE WithCurrentNode_restore(
         emitNodeAtBlockLevel_switch([s EXCEPT !.current_node_ = node.id],
                                     node),
         s.current_node_)

\* emitCodeForBlock, the loop over block->nodes()
RECURSIVE emitCodeForBlock_loop(_, _)
emitCodeForBlock_loop(s, nodes) ==
  IF ~Ok(s) \/ nodes = <<>> THEN s
  ELSE emitCodeForBlock_loop(emitNodeAtBlockLevel(s, Head(nodes)), Tail(nodes))

emitCodeForBlock(s, block) ==
  emitNodeAtBlockLevel(
    emitCodeForBlock_loop(emitNodeAtBlockLevel(s, block.param), block.nodes),
    block.ret)

emit(s, f, x) ==
  CASE f = "emitNode"         -> emitNode(s, x)
    [] f = "emitCodeForBlock" -> emitCodeForBlock(s, x)

\* run() as one call: emitCodeForBlock(graph_->block()),
\* insertInstruction(RET), insertBailoutBlocks()
run(s) ==
  insertBailoutBlocks(
    insertInstruction(emitCodeForBlock(s, s.graph_.block), "RET", 0, 0))

\* faulty variant of CodeImpl: the constant table is shared with the
\* objects built earlier
CodeImpl_shared_table(graph, flag) ==
  [graph_ |-> graph, instructions_ |-> <<>>, instructions_source_ |-> <<>>,
   constant_table_ |-> constant_table_, operator_table_ |-> <<>>,
   function_table_ |-> <<>>, type_table_ |-> <<>>, register_size_ |-> 0,
   value_to_reg_ |-> EmptyMap, use_count_ |-> EmptyMap,
   current_node_ |-> graph.block.ret.id, last_inserted_op_ |-> NoNode,
   bailout_blocks_ |-> <<>>,
   FLAGS_torch_jit_disable_warning_prints |-> flag,
   op_to_num_specified_args_ |-> EmptyMap, dynamic_type |-> "CodeImpl",
   err |-> "none", ret |-> 0]

\* the object the member initializers of CodeImpl(graph, ...) build, under
\* a given value of the global flag
CodeImpl(graph, flag) ==
  [graph_ |-> graph, instructions_ |-> <<>>, instructions_source_ |-> <<>>,
   constant_table_ |-> <<>>, operator_table_ |-> <<>>,
   function_table_ |-> <<>>, type_table_ |-> <<>>, register_size_ |-> 0,
   value_to_reg_ |-> EmptyMap, use_count_ |-> EmptyMap,
   current_node_ |-> graph.block.ret.id, last_inserted_op_ |-> NoNode,
   bailout_blocks_ |-> <<>>,
   FLAGS_torch_jit_disable_warning_prints |-> flag,
   op_to_num_specified_args_ |-> EmptyMap, dynamic_type |-> "CodeImpl",
   err |-> "none", ret |-> 0]

\* request_bailout: the scan for the index-th GUARD or FAIL_GUARD
RECURSIVE request_bailout_loop(_, _, _)
request_bailout_loop(instrs, instr_index, count) ==
  IF instr_index >= Len(instrs) THEN instrs
  ELSE IF instrs[instr_index + 1].op \in {"GUARD", "FAIL_GUARD"}
       THEN IF count = 0
            THEN [instrs EXCEPT ![instr_index + 1].op = "FAIL_GUARD"]
            ELSE request_bailout_loop(instrs, instr_index + 1, count - 1)
       ELSE request_bailout_loop(instrs, instr_index + 1, count)

\* faulty variant of request_bailout: the index counted from one
request_bailout_off_by_one(s, index) ==
  [s EXCEPT !.instructions_ = request_bailout_loop(@, 0, index + 1)]

\* faulty variant of request_bailout: FAIL_GUARD instructions not counted
RECURSIVE request_bailout_guards_only_loop(_, _, _)
request_bailout_guards_only_loop(instrs, instr_index, count) ==
  IF instr_index >= Len(instrs) THEN instrs
  ELSE IF instrs[instr_index + 1].op = "GUARD"
       THEN IF count = 0
            THEN [instrs EXCEPT ![instr_index + 1].op = "FAIL_GUARD"]
            ELSE request_bailout_guards_only_loop(instrs, instr_index + 1,
                                                  count - 1)
       ELSE request_bailout_guards_only_loop(instrs, instr_index + 1, count)

request_bailout_guards_only(s, index) ==
  [s EXCEPT !.instructions_ = request_bailout_guards_only_loop(@, 0, index)]

\* faulty variant of request_bailout: the opcode flipped, so that a second
\* request restores GUARD
RECURSIVE request_bailout_toggle_loop(_, _, _)
request_bailout_toggle_loop(instrs, instr_index, count) ==
  IF instr_index >= Len(instrs) THEN instrs
  ELSE IF instrs[instr_index + 1].op \in {"GUARD", "FAIL_GUARD"}
       THEN IF count = 0
            THEN [instrs EXCEPT ![instr_index + 1].op =
                    IF @ = "GUARD" THEN "FAIL_GUARD" ELSE "GUARD"]
            ELSE request_bailout_toggle_loop(instrs, instr_index + 1, count - 1)
       ELSE request_bailout_toggle_loop(instrs, instr_index + 1, count)

request_bailout_toggle(s, index) ==
  [s EXCEPT !.instructions_ = request_bailout_toggle_loop(@, 0, index)]

\* faulty variant of request_bailout: the guards met before the index-th
\* are patched as well
RECURSIVE request_bailout_up_to_loop(_, _, _)
request_bailout_up_to_loop(instrs, instr_index, count) ==
  IF instr_index >= Len(instrs) THEN instrs
  ELSE IF instrs[instr_index + 1].op \in {"GUARD", "FAIL_GUARD"}
       THEN IF count = 0
            THEN [instrs EXCEPT ![instr_index + 1].op = "FAIL_GUARD"]
            ELSE request_bailout_up_to_loop(
                   [instrs EXCEPT ![instr_index + 1].op = "FAIL_GUARD"],
                   instr_index + 1, count - 1)
       ELSE request_bailout_up_to_loop(instrs, instr_index + 1, count)

request_bailout_up_to(s, index) ==
  [s EXCEPT !.instructions_ = request_bailout_up_to_loop(@, 0, index)]

\* faulty variant of request_bailout: a request past the last guard patches
\* the last guard
request_bailout_clamped(s, index) ==
  [s EXCEPT !.instructions_ =
     request_bailout_loop(
       @, 0,
       IF index < Cardinality({i \in DOMAIN @ :
                                 @[i].op \in {"GUARD", "FAIL_GUARD"}})
       THEN index
       ELSE Cardinality({i \in DOMAIN @ :
                           @[i].op \in {"GUARD", "FAIL_GUARD"}}) - 1)]

request_bailout(s, index) ==
  [s EXCEPT !.instructions_ = request_bailout_loop(@, 0, index)]

\* CalculateNecessaryArgs(schema_args, actual_inputs): the arguments are
\* scanned from the last one; an argument without a default value, or whose
\* actual input is no constant or a constant other than the default, is
\* necessary and so are all before it
RECURSIVE CalculateNecessaryArgs_loop(_, _, _, _)
CalculateNecessaryArgs_loop(g, schema_args, actual_inputs, schema_idx) ==
  IF schema_idx < 0 THEN 0
  ELSE IF \/ schema_args[schema_idx + 1].default_value = <<>>
          \/ NodeOf(g, actual_inputs[schema_idx + 1]).kind # "Constant"
          \/ schema_args[schema_idx + 1].default_value[1]
               # toIValue(actual_inputs[schema_idx + 1])
       THEN schema_idx + 1
       ELSE CalculateNecessaryArgs_loop(g, schema_args, actual_inputs,
                                        schema_idx - 1)

CalculateNecessaryArgs(g, schema_args, actual_inputs) ==
  IF Len(schema_args) < Len(actual_inputs) THEN Len(actual_inputs)
  ELSE CalculateNecessaryArgs_loop(g, schema_args, actual_inputs,
                                   Len(schema_args) - 1)

\* DepthFirstGraphNodeIterator: the nodes of a block in order, each followed
\* by the nodes of its blocks
RECURSIVE DepthFirstNodes(_)
RECURSIVE DepthFirstBlocks(_)
DepthFirstBlocks(bs) ==
  IF bs = <<>> THEN <<>>
  ELSE DepthFirstNodes(Head(bs).nodes) \o DepthFirstBlocks(Tail(bs))
DepthFirstNodes(nodes) ==
  IF nodes = <<>> THEN <<>>
  ELSE <<Head(nodes)>> \o DepthFirstBlocks(Head(nodes).blocks)
         \o DepthFirstNodes(Tail(nodes))

\* faulty variant of process_ops_for_mobile_max: the count of the last call
\* site replaces the recorded one
process_ops_for_mobile_last(s, name, numInclude) ==
  [s EXCEPT !.op_to_num_specified_args_ = Put(@, name, numInclude)]

\* process_ops_for_mobile: insert (unique_name, 0), which keeps an entry
\* that is there, and store std::max(numInclude, prev_value)
process_ops_for_mobile_max(s, name, numInclude) ==
  [s EXCEPT !.op_to_num_specified_args_ =
     Put(@, name,
         IF name \in DOMAIN @ /\ @[name] > numInclude THEN @[name]
         ELSE numInclude)]

\* process_ops_for_mobile, one turn of the loop
process_ops_for_mobile_node(s, node) ==
  IF node.op.found /\ ~node.op.is_vararg
  THEN process_ops_for_mobile_max(
         s, unique_name(node.op),
         CalculateNecessaryArgs(s.graph_, node.op.arguments, node.inputs))
  ELSE s

RECURSIVE process_ops_for_mobile_loop(_, _)
process_ops_for_mobile_loop(s, nodes) ==
  IF nodes = <<>> THEN s
  ELSE process_ops_for_mobile_loop(
         process_ops_for_mobile_node(s, Head(nodes)), Tail(nodes))

process_ops_for_mobile(s) ==
  process_ops_for_mobile_loop(s, DepthFirstNodes(s.graph_.block.nodes))

\* a c10::optional<std::vector<...>> without a value
nullopt == [has_value |-> FALSE, value |-> <<>>]

\* The threads that hold the object, and a thread that has made no call:
\* fn is the function it is in, at the statement, i the position of the
\* range-for in operator_table_, returned the list it saw through the
\* reference the last call returned, made the calls it has completed.
Threads == {"a", "b"}

\* The frame of the interpreter that runs a program: pc, and of the
\* registers those whose value was moved out or cleared and not stored
\* again; returned once RET or TAIL_CALL has left the frame.
Frame == [pc |-> 0, taken |-> {}, returned |-> FALSE]

\* The interpreter executing the instruction at frame.pc.  Of the stack
\* only the outcome of a test is kept: for JF, that the popped condition is
\* true; for LOOP, that the trip count is below the maximum and the
\* condition is true.
execute(instrs, f, test) ==
  LET inst == instrs[f.pc + 1]
      next == [f EXCEPT !.pc = @ + 1]
  IN CASE inst.op \in {"MOVE", "DROPR"} ->
            [next EXCEPT !.taken = @ \cup {inst.X}]
       [] inst.op = "STORE" -> [next EXCEPT !.taken = @ \ {inst.X}]
       [] inst.op = "STOREN" ->
            [next EXCEPT !.taken = @ \ (inst.X .. (inst.X + inst.N - 1))]
       [] inst.op = "JF" ->
            [f EXCEPT !.pc = @ + (IF test THEN 1 ELSE inst.X)]
       [] inst.op = "JMP" -> [f EXCEPT !.pc = @ + inst.X]
       [] inst.op = "LOOP" ->
            [f EXCEPT !.pc = @ + (IF test THEN 1 ELSE inst.X)]
       [] inst.op \in {"RET", "TAIL_CALL"} -> [f EXCEPT !.returned = TRUE]
       [] OTHER -> next

\* What PreprocessGraph (insertLastUses) guarantees of the uses of a value
\* that is given a register: the last of them, in the order of the block
\* that defines the value, is made by a node of that block itself and not
\* inside its nested blocks (a prim::Drop is added after a node whose
\* blocks hold the last use), and a prim::Drop of the value is its last use.
\* A value defined by a prim::Constant is given to no prim::Drop.
LastUsesInserted(g) ==
  /\ \A n \in AllNodes(g) :
       n.kind = "Drop" =>
         \A i \in DOMAIN n.inputs : NodeOf(g, n.inputs[i]).kind # "Constant"
  /\ \A v \in {w \in AllValues(g) :
                 /\ NodeOf(g, w).kind # "Constant"
                 /\ NodeOf(g, w).id \notin g.can_emit_inline} :
       LET block == NodeOf(g, v).owner
           users == {n \in AllNodes(g) : \E i \in DOMAIN n.inputs : n.inputs[i] = v}
           findOwnerInBlock(n) ==
             CHOOSE m \in AllNodes(g) :
               /\ m.owner = block
               /\ m.id = n.id \/ n \in NodesOfBlocks(m.blocks)
           last == CHOOSE m \in {findOwnerInBlock(n) : n \in users} :
                     \A n \in users : findOwnerInBlock(n).topo <= m.topo
       IN users # {} =>
            /\ last \in users
            /\ \A n \in users : n.id # last.id => n \notin NodesOfBlocks(last.blocks)
            /\ \A n \in users : n.kind = "Drop" => n.id = last.id

----------------------------------------------------------------------------
(* The state machine *)

Assign(s) ==
  /\ UNCHANGED <<graph_, FLAGS_torch_jit_disable_warning_prints,
                 dynamic_type, frame, grad_executors_, forward_executors_,
                 call>>
  /\ op_to_num_specified_args_' = s.op_to_num_specified_args_
  /\ instructions_' = s.instructions_
  /\ instructions_source_' = s.instructions_source_
  /\ constant_table_' = s.constant_table_
  /\ operator_table_' = s.operator_table_
  /\ function_table_' = s.function_table_
  /\ type_table_' = s.type_table_
  /\ register_size_' = s.register_size_
  /\ value_to_reg_' = s.value_to_reg_
  /\ use_count_' = s.use_count_
  /\ current_node_' = s.current_node_
  /\ last_inserted_op_' = s.last_inserted_op_
  /\ bailout_blocks_' = s.bailout_blocks_
  /\ err' = s.err
  /\ ret' = s.ret

\* a step of run() ends in the next step, or in the exception leaving the
\* constructor
Step(s, next) ==
  /\ Assign(s)
  /\ pc' = IF Ok(s) THEN next ELSE "failed"

\* the member initializers of CodeImpl
Constructed(g) ==
  /\ graph_ = g
  /\ instructions_ = <<>>
  /\ instructions_source_ = <<>>
  /\ constant_table_ = <<>>
  /\ operator_table_ = <<>>
  /\ function_table_ = <<>>
  /\ type_table_ = <<>>
  /\ register_size_ = 0
  /\ value_to_reg_ = EmptyMap
  /\ op_to_num_specified_args_ = EmptyMap
  /\ use_count_ = EmptyMap
  /\ current_node_ = Deref(g).block.ret.id
  /\ last_inserted_op_ = NoNode
  /\ bailout_blocks_ = <<>>
  /\ frame = Frame
  /\ grad_executors_ = nullopt
  /\ forward_executors_ = nullopt
  /\ call = [t \in Threads |->
              [fn |-> "", at |-> "idle", i |-> 0, returned |-> <<>>,
               made |-> 0]]
  /\ err = "none"
  /\ ret = 0

\* CodeImpl(graph, ...) with emit_instructions = true, entering run()
Init ==
  /\ \E g \in Graphs : Constructed(g)
  /\ FLAGS_torch_jit_disable_warning_prints \in BOOLEAN
  /\ dynamic_type = "CodeImpl"
  /\ pc = "emit"
  /\ pos = 0

\* the nodes emitCodeForBlock walks in the root block
RootNodes(g) ==
  <<Deref(g).block.param>> \o Deref(g).block.nodes \o <<Deref(g).block.ret>>

\* run(): emitCodeForBlock(graph_->block()), one node of the root block at
\* a time
EmitCodeForBlock ==
  /\ pc = "emit"
  /\ Step(emitNodeAtBlockLevel(Self, RootNodes(graph_)[pos + 1]),
          IF pos + 1 = Len(RootNodes(graph_)) THEN "ret" ELSE "emit")
  /\ pos' = pos + 1

\* run(): insertInstruction(RET)
InsertRet ==
  /\ pc = "ret"
  /\ Step(insertInstruction(Self, "RET", 0, 0), "bailouts")
  /\ UNCHANGED pos

\* run(): insertBailoutBlocks(); the constructor returns
InsertBailoutBlocks ==
  /\ pc = "bailouts"
  /\ Step(insertBailoutBlocks(Self), "done")
  /\ UNCHANGED pos

\* request_bailout(index) on the finished program
RequestBailout(index) ==
  /\ pc = "done"
  /\ Assign(request_bailout(Self, index))
  /\ UNCHANGED <<pc, pos>>

Next ==
  \/ EmitCodeForBlock
  \/ InsertRet
  \/ InsertBailoutBlocks
  \/ \E index \in 0..MaxBailoutIndex : RequestBailout(index)

Spec == Init /\ [][Next]_vars

----------------------------------------------------------------------------
(* The register table driven by direct calls: a CodeImpl constructed with  *)
(* emit_instructions = false, on which allocRegs, registerFor, emitUse and *)
(* emitConstant are called in any order.  pos counts the calls made.       *)

UnitGraphs == {Handle("Unit", 0, 0)}

\* values that are given a register: not the output of a Constant, and not
\* of a node emitted inline
RegisterValues(g) ==
  {v \in AllValues(g) : /\ NodeOf(g, v).kind # "Constant"
                        /\ NodeOf(g, v).id \notin g.can_emit_inline}

\* the argument lists of allocRegs: up to two values
ValueLists(g) ==
  {<<>>} \cup {<<v>> : v \in RegisterValues(g)}
         \cup {<<v, w>> : v \in RegisterValues(g), w \in RegisterValues(g)}

ConstantNodes(g) == {n \in AllNodes(g) : n.kind = "Constant"}

InitUnit ==
  /\ \E g \in UnitGraphs : Constructed(g)
  /\ FLAGS_torch_jit_disable_warning_prints = FALSE
  /\ dynamic_type = "CodeImpl"
  /\ pc = "unit"
  /\ pos = 0

Call(s) ==
  /\ pc = "unit"
  /\ pos < MaxCalls
  /\ Assign(s)
  /\ pos' = pos + 1
  /\ UNCHANGED pc

AllocRegs(vs) == Call(allocRegs(Self, vs))

RegisterFor(v) == Call(registerFor(Self, v))

EmitUse(input, drop) == Call(emitUse(Self, input, drop))

EmitConstant(node) == Call(emitConstant(Self, node))

NextUnit ==
  \/ \E vs \in ValueLists(Deref(graph_)) : AllocRegs(vs)
  \/ \E v \in AllValues(Deref(graph_)) : RegisterFor(v)
  \/ \E v \in AllValues(Deref(graph_)), drop \in BOOLEAN : EmitUse(v, drop)
  \/ \E node \in ConstantNodes(Deref(graph_)) : EmitConstant(node)

SpecUnit == InitUnit /\ [][NextUnit]_vars

----------------------------------------------------------------------------
(* insertInstruction driven by direct calls: a CodeImpl constructed with    *)
(* emit_instructions = false, on which current_node_ is set as             *)
(* WithCurrentNode sets it and insertInstruction is called, in any order.  *)
(* pos counts the calls made; an exception ends the run.                   *)

InsertGraphs == {Handle("IfElseGuard", 0, 0)}

\* the nodes code is emitted for
InsertNodes(g) == {n \in AllNodes(g) : n.kind \in {"Op", "If", "BailOut"}}

InitInsert ==
  /\ \E g \in InsertGraphs : Constructed(g)
  /\ FLAGS_torch_jit_disable_warning_prints = FALSE
  /\ dynamic_type = "CodeImpl"
  /\ pc = "insert"
  /\ pos = 0

\* WithCurrentNode guard(&current_node_, node)
WithCurrentNode(node) ==
  /\ pc = "insert"
  /\ Assign([Self EXCEPT !.current_node_ = node.id])
  /\ UNCHANGED <<pc, pos>>

\* the arguments of the calls: insertInstruction(OP), insertInstruction(LOAD),
\* and a STOREN and a LOOP whose N, the size() of a list of outputs or
\* inputs, is the largest that fits uint16_t or does not fit
Instructions ==
  {<<"OP", 0, 0>>, <<"LOAD", 0, 0>>, <<"STOREN", 1, 65537>>,
   <<"LOOP", 0, 65535>>}

\* insertInstruction(op, X, N)
InsertInstruction(op, X, N) ==
  /\ pc = "insert"
  /\ pos < MaxInserts
  /\ Step(insertInstruction(Self, op, X, N), "insert")
  /\ pos' = pos + 1

NextInsert ==
  \/ \E node \in InsertNodes(Deref(graph_)) : WithCurrentNode(node)
  \/ \E i \in Instructions : InsertInstruction(i[1], i[2], i[3])

SpecInsert == InitInsert /\ [][NextInsert]_vars

----------------------------------------------------------------------------
(* MobileCodeImpl: the constructor hands emit_instructions = false to       *)
(* CodeImpl and calls its own run(), which fills op_to_num_specified_args_ *)
(* before it emits the code.                                               *)

\* the graphs: what the two calls of aten::foo.str pass as b and c
MobileGraphs ==
  LET ArgChoices == {"default", "other", "value"}
  IN {Handle("Mobile", first, second) :
        first \in ArgChoices \X ArgChoices,
        second \in ArgChoices \X ArgChoices}

InitMobile ==
  /\ \E g \in MobileGraphs : Constructed(g)
  /\ FLAGS_torch_jit_disable_warning_prints = FALSE
  /\ dynamic_type = "MobileCodeImpl"
  /\ pc = "mobile"
  /\ pos = 0

\* MobileCodeImpl::run(): process_ops_for_mobile()
ProcessOpsForMobile ==
  /\ pc = "mobile"
  /\ Step(process_ops_for_mobile(Self), "emit")
  /\ UNCHANGED pos

\* MobileCodeImpl::run(): the steps it shares with CodeImpl::run()
NextMobile ==
  \/ ProcessOpsForMobile
  \/ EmitCodeForBlock
  \/ InsertRet
  \/ InsertBailoutBlocks

SpecMobile == InitMobile /\ [][NextMobile]_vars

----------------------------------------------------------------------------
(* A program is compiled and then run by the interpreter, one instruction  *)
(* at a time, along every path: every test may come out either way.        *)

InitRun ==
  /\ \E g \in {h \in Graphs : LastUsesInserted(Deref(h))} : Constructed(g)
  /\ FLAGS_torch_jit_disable_warning_prints = FALSE
  /\ dynamic_type = "CodeImpl"
  /\ pc = "emit"
  /\ pos = 0

\* the interpreter executes the instruction at frame.pc
Execute(test) ==
  /\ pc = "done"
  /\ ~frame.returned
  /\ frame' = execute(instructions_, frame, test)
  /\ UNCHANGED <<graph_, instructions_, instructions_source_, constant_table_,
                 operator_table_, function_table_, type_table_,
                 register_size_, value_to_reg_, use_count_, current_node_,
                 last_inserted_op_, bailout_blocks_,
                 FLAGS_torch_jit_disable_warning_prints,
                 op_to_num_specified_args_, dynamic_type, grad_executors_,
                 forward_executors_, call, pc, pos, err, ret>>

NextRun ==
  \/ EmitCodeForBlock
  \/ InsertRet
  \/ InsertBailoutBlocks
  \/ \E test \in BOOLEAN : Execute(test)

SpecRun == InitRun /\ [][NextRun]_vars

----------------------------------------------------------------------------
(* Properties.  Instruction indices are counted from 0 as in the code:     *)
(* instruction i is instructions_[i + 1].                                  *)

\* the indices (from 1) of the guard instructions of a program
GuardIndices(instrs) ==
  {i \in DOMAIN instrs : instrs[i].op \in {"GUARD", "FAIL_GUARD"}}

\* the summed lengths of the first k bailout blocks
RECURSIVE BlocksLength(_, _)
BlocksLength(blocks, k) ==
  IF k = 0 THEN 0
  ELSE Len(blocks[k].instructions) + BlocksLength(blocks, k - 1)

\* C1: after run() has completed, every JF, JMP and LOOP instruction at
\* index i of instructions_ transfers control to an index i + X with
\* 0 <= i + X < instructions_.size(), whether it comes from an If, a Loop
\* or a guard, at any nesting depth and with any number of bailout blocks.
C1_JumpValidity ==
  pc = "done" =>
    \A i \in 0..(Len(instructions_) - 1) :
      instructions_[i + 1].op \in {"JF", "JMP", "LOOP"} =>
        /\ 0 <= i + instructions_[i + 1].X
        /\ i + instructions_[i + 1].X < Len(instructions_)

\* a finished program with a LOOP, a backward JMP, the forward JMP of an If
\* and at least four spliced bailout blocks
C1_Witness ==
  /\ pc = "done"
  /\ Len(bailout_blocks_) >= 4
  /\ \E i \in DOMAIN instructions_ : instructions_[i].op = "LOOP"
  /\ \E i \in DOMAIN instructions_ :
       instructions_[i].op = "JMP" /\ instructions_[i].X < 0
  /\ \E i \in DOMAIN instructions_ :
       instructions_[i].op = "JMP" /\ instructions_[i].X > 0

\* C2: on a compiled program with g guard instructions (GUARD or
\* FAIL_GUARD, which request_bailout counts alike), request_bailout(k) with
\* k < g makes the k-th of them, counted from 0 in instruction order, a
\* FAIL_GUARD and changes no other instruction.
C2_BailoutDeterminism ==
  [][\A k \in 0..MaxBailoutIndex :
       (RequestBailout(k) /\ k < Cardinality(GuardIndices(instructions_))) =>
         \E i \in GuardIndices(instructions_) :
           /\ Cardinality({j \in GuardIndices(instructions_) : j < i}) = k
           /\ instructions_' = [instructions_ EXCEPT ![i].op = "FAIL_GUARD"]
    ]_vars

\* a request has patched a guard that is not the first one, and the guards
\* before it are still GUARD
C2_Witness ==
  /\ pc = "done"
  /\ \E i \in GuardIndices(instructions_) :
       /\ instructions_[i].op = "FAIL_GUARD"
       /\ \E j \in GuardIndices(instructions_) : j < i
       /\ \A j \in GuardIndices(instructions_) :
            j < i => instructions_[j].op = "GUARD"

\* C3: in every state reached by any sequence of request_bailout calls,
\* request_bailout(k) called twice leaves the object as one call does.
C3_RequestBailoutIdempotent ==
  pc = "done" =>
    \A k \in 0..MaxBailoutIndex :
      request_bailout(request_bailout(Self, k), k) = request_bailout(Self, k)

\* earlier requests have left a FAIL_GUARD before a GUARD that a further
\* request can reach
C3_Witness ==
  /\ pc = "done"
  /\ Cardinality(GuardIndices(instructions_)) >= 3
  /\ \E i \in GuardIndices(instructions_), j \in GuardIndices(instructions_) :
       /\ i < j
       /\ instructions_[i].op = "FAIL_GUARD"
       /\ instructions_[j].op = "GUARD"
       /\ Cardinality({l \in GuardIndices(instructions_) : l < j})
            <= MaxBailoutIndex

\* C4: once run() has completed, no step changes the number of
\* instructions, an X or N operand, or a table; the one change is the
\* opcode of a single guard instruction going from GUARD to FAIL_GUARD.
C4_ImmutableAfterCompile ==
  [][pc = "done" =>
       /\ pc' = "done"
       /\ Len(instructions_') = Len(instructions_)
       /\ \A i \in DOMAIN instructions_ :
            /\ instructions_'[i].X = instructions_[i].X
            /\ instructions_'[i].N = instructions_[i].N
            /\ \/ instructions_'[i].op = instructions_[i].op
               \/ /\ instructions_[i].op = "GUARD"
                  /\ instructions_'[i].op = "FAIL_GUARD"
       /\ Cardinality({i \in DOMAIN instructions_ :
                         instructions_'[i].op # instructions_[i].op}) <= 1
       /\ UNCHANGED <<instructions_source_, constant_table_, operator_table_,
                      function_table_, type_table_, register_size_,
                      value_to_reg_, use_count_, bailout_blocks_>>
    ]_vars

\* three guards of a finished program have been patched
C4_Witness ==
  /\ pc = "done"
  /\ Cardinality({i \in DOMAIN instructions_ :
                    instructions_[i].op = "FAIL_GUARD"}) >= 3

\* C5, as stated: in the final program the instruction at the target of
\* the JF of every guard is a TAIL_CALL whose X indexes, in function_table_,
\* the bailout function made for the guard's BailOut node.
C5_TargetIsTailCall ==
  pc = "done" =>
    \A i \in GuardIndices(instructions_) :
      LET target == instructions_[i + instructions_[i + 1].X + 1]
      IN /\ target.op = "TAIL_CALL"
         /\ target.X \in 0..(Len(function_table_) - 1)
         /\ function_table_[target.X + 1]
              = <<"bailout", instructions_source_[i]>>

\* C5, amended: the target of the JF of every guard is the first
\* instruction of the bailout block of its BailOut node: the loads of the
\* node's inputs after the guarded one, in order, and then the TAIL_CALL
\* whose X indexes, in function_table_, the bailout function made for that
\* node.  The target is the TAIL_CALL itself only for a node without such
\* inputs.
C5_GuardTarget ==
  pc = "done" =>
    \A i \in GuardIndices(instructions_) :
      LET node   == NodeById(Deref(graph_), instructions_source_[i])
          target == i + instructions_[i + 1].X + 1
          loads  == Len(node.inputs) - 2
      IN /\ node.kind = "BailOut"
         /\ instructions_[i + 1].op = "JF"
         /\ target + loads <= Len(instructions_)
         /\ \A l \in 0..(loads - 1) :
              /\ instructions_[target + l].op \in {"LOAD", "MOVE", "LOADC"}
              /\ instructions_[target + l].X = value_to_reg_[node.inputs[3 + l]]
         /\ instructions_[target + loads].op = "TAIL_CALL"
         /\ instructions_[target + loads].X \in 0..(Len(function_table_) - 1)
         /\ function_table_[instructions_[target + loads].X + 1]
              = <<"bailout", node.id>>

\* a finished program with two guards whose JF lands on the load of a live
\* input
C5_Witness ==
  /\ pc = "done"
  /\ Cardinality({i \in GuardIndices(instructions_) :
        instructions_[i + instructions_[i + 1].X + 1].op \in {"LOAD", "MOVE"}})
       >= 2

\* C6: until RET has been emitted and insertBailoutBlocks has run, the
\* instructions of the BailOut nodes are held in bailout_blocks_ and none
\* is in instructions_; in the finished program they follow the main body,
\* which ends in RET, one block after the other in the order in which the
\* BailOut nodes were lowered (the order of their functions in
\* function_table_, which holds the callees of the calls and forks as
\* well), and the JF recorded for each block targets that
\* block's first instruction; with a single guard that target is the
\* length of the main program, the index of RET plus one.
C6_DeferredSplicing ==
  /\ pc \in {"emit", "ret", "bailouts"} =>
       /\ \A i \in DOMAIN instructions_ : instructions_[i].op # "TAIL_CALL"
       /\ \A k \in DOMAIN bailout_blocks_ :
            instructions_[bailout_blocks_[k].jf_instruction_index + 1].X = 0
  /\ pc = "bailouts" => instructions_[Len(instructions_)].op = "RET"
  /\ pc = "done" =>
       LET main == Len(instructions_)
                     - BlocksLength(bailout_blocks_, Len(bailout_blocks_))
       IN /\ main >= 1
          /\ instructions_[main].op = "RET"
          /\ \A i \in 1..(main - 1) :
               instructions_[i].op \notin {"RET", "TAIL_CALL"}
          /\ \A k \in DOMAIN bailout_blocks_ :
               LET start == main + BlocksLength(bailout_blocks_, k - 1)
                   block == bailout_blocks_[k]
                   jf    == block.jf_instruction_index
               IN /\ SubSeq(instructions_, start + 1,
                            start + Len(block.instructions))
                       = block.instructions
                  /\ jf < main
                  /\ instructions_[jf + 1].op = "JF"
                  /\ jf + instructions_[jf + 1].X = start
                  /\ block.instructions[Len(block.instructions)].op
                       = "TAIL_CALL"
                  /\ function_table_[
                       block.instructions[Len(block.instructions)].X + 1][1]
                       = "bailout"
                  /\ Cardinality(
                       {j \in 1..block.instructions[
                                   Len(block.instructions)].X :
                          function_table_[j][1] = "bailout"}) = k - 1
          /\ Len(bailout_blocks_) = 1 =>
               \E ret_index \in 0..(Len(instructions_) - 1) :
                 /\ instructions_[ret_index + 1].op = "RET"
                 /\ bailout_blocks_[1].jf_instruction_index
                      + instructions_[
                          bailout_blocks_[1].jf_instruction_index + 1].X
                      = ret_index + 1

\* a finished program with three or more spliced blocks of several
\* instructions each
C6_Witness ==
  /\ pc = "done"
  /\ Len(bailout_blocks_) >= 3
  /\ \A k \in DOMAIN bailout_blocks_ : Len(bailout_blocks_[k].instructions) >= 2

\* C7: at every point of a compilation no two distinct values that have
\* been given a register hold the same register index.  (value_to_reg_
\* also keeps, for the output of a Constant node, its index in
\* constant_table_, which LOADC reads: those entries are not registers.)
C7_RegisterUniqueness ==
  \A v \in DOMAIN value_to_reg_, w \in DOMAIN value_to_reg_ :
    (/\ v # w
     /\ NodeOf(Deref(graph_), v).kind # "Constant"
     /\ NodeOf(Deref(graph_), w).kind # "Constant")
      => value_to_reg_[v] # value_to_reg_[w]

\* a compilation that has given registers to five values or more
C7_Witness ==
  /\ pc \in {"emit", "ret", "bailouts", "done"}
  /\ Cardinality({v \in DOMAIN value_to_reg_ :
                    NodeOf(Deref(graph_), v).kind # "Constant"}) >= 5

\* C8: allocRegs(vs) returns register_size_ + 1 as it was before the call
\* and gives the values of vs, in order, the indices r, r + 1, ...,
\* r + |vs| - 1; a value that already has an entry fails the assertion.
\* Every register index is >= 1, register_size_ never decreases and is the
\* number of registers handed out, and a register once given is kept.
C8_AllocRegsContract ==
  [][/\ \A vs \in ValueLists(Deref(graph_)) :
          AllocRegs(vs) =>
            IF /\ \A i \in DOMAIN vs : vs[i] \notin DOMAIN value_to_reg_
               /\ \A i \in DOMAIN vs, j \in DOMAIN vs : i # j => vs[i] # vs[j]
            THEN /\ err' = "none"
                 /\ ret' = register_size_ + 1
                 /\ register_size_' = register_size_ + Len(vs)
                 /\ DOMAIN value_to_reg_'
                      = DOMAIN value_to_reg_ \cup {vs[i] : i \in DOMAIN vs}
                 /\ \A i \in DOMAIN vs :
                      value_to_reg_'[vs[i]] = register_size_ + 1 + (i - 1)
            ELSE err' = "assert"
     /\ register_size_' >= register_size_
     /\ {value_to_reg_'[v] :
           v \in DOMAIN value_to_reg_' \cap RegisterValues(Deref(graph_))}
          = 1..register_size_'
     /\ \A v \in DOMAIN value_to_reg_ \cap RegisterValues(Deref(graph_)) :
          /\ v \in DOMAIN value_to_reg_'
          /\ value_to_reg_'[v] = value_to_reg_[v]
    ]_vars

\* all three registers are handed out, and the last call failed the
\* assertion on a value that had one
C8_Witness ==
  /\ pc = "unit"
  /\ err = "assert"
  /\ register_size_ = 3

\* C9: registerFor(v) returns the recorded index of a value that has one
\* and throws for a value that has none, changing nothing; emitUse of a
\* value that is not emitted inline and has no recorded index fails
\* without appending an instruction and without changing use_count_ or
\* value_to_reg_.
C9_RegisterForContract ==
  [][/\ \A v \in AllValues(Deref(graph_)) :
          RegisterFor(v) =>
            /\ IF v \in DOMAIN value_to_reg_
               THEN err' = "none" /\ ret' = value_to_reg_[v]
               ELSE err' = "out_of_range"
            /\ UNCHANGED <<instructions_, instructions_source_,
                           value_to_reg_, use_count_, register_size_>>
     /\ \A v \in AllValues(Deref(graph_)), drop \in BOOLEAN :
          (/\ EmitUse(v, drop)
           /\ NodeOf(Deref(graph_), v).id \notin Deref(graph_).can_emit_inline
           /\ v \notin DOMAIN value_to_reg_) =>
            /\ err' = "out_of_range"
            /\ UNCHANGED <<instructions_, instructions_source_,
                           value_to_reg_, use_count_>>
    ]_vars

\* a lookup has failed on an object that holds registers, emitted uses and
\* a value without an entry
C9_Witness ==
  /\ pc = "unit"
  /\ err = "out_of_range"
  /\ instructions_ # <<>>
  /\ DOMAIN use_count_ # {}
  /\ \E v \in RegisterValues(Deref(graph_)) : v \notin DOMAIN value_to_reg_

----------------------------------------------------------------------------
(* What the final program holds for a value and for a node *)

\* the inputs a node never loads: the template of a BailOut and the function
\* of a CallFunction
UnloadedInput(m, j) == j = 1 /\ m.kind \in {"BailOut", "CallFunction"}

\* the nodes that are never lowered: a Warn under the flag, and a node
\* emitted inline whose only use is an input that is never loaded
RECURSIVE Skipped(_, _, _)
Skipped(g, flag, n) ==
  \/ n.kind = "Warn" /\ flag
  \/ /\ n.id \in g.can_emit_inline
     /\ \A m \in AllNodes(g) : \A j \in DOMAIN m.inputs :
          m.inputs[j] = n.outputs[1] =>
            UnloadedInput(m, j) \/ Skipped(g, flag, m)

\* the static uses of v that no instruction consumes
SilentUses(g, flag, v) ==
  Cardinality(UNION {{<<m.id, j>> : j \in {k \in DOMAIN m.inputs :
                                             /\ m.inputs[k] = v
                                             /\ \/ UnloadedInput(m, k)
                                                \/ Skipped(g, flag, m)}}
                       : m \in AllNodes(g)})

\* the instruction that stands for the lowering of a node of each kind
HeadOps(kind) ==
  CASE kind = "Op"           -> {"OP"}
    [] kind = "CallFunction" -> {"CALL"}
    [] kind = "CallMethod"   -> {"CALL", "INTERFACE_CALL"}
    [] kind = "fork"         -> {"FORK"}
    [] kind = "isinstance"   -> {"ISINSTANCE"}
    [] kind = "If"           -> {"JF"}
    [] kind = "Loop"         -> {"LOOP"}
    [] kind = "BailOut"      -> {"GUARD", "FAIL_GUARD"}
    [] kind = "TypeCheck"    -> {"TYPECHECK"}
    [] kind = "Warn"         -> {"WARN"}
    [] OTHER                 -> {}

\* how many times node n was lowered
Emissions(n) ==
  Cardinality({i \in DOMAIN instructions_ :
                 /\ instructions_source_[i] = n.id
                 /\ instructions_[i].op \in HeadOps(n.kind)})

\* v is the output of a node that is not emitted inline
AtBlockLevel(g, v) == NodeOf(g, v).id \notin g.can_emit_inline

\* v holds a register
Registered(g, v) ==
  /\ AtBlockLevel(g, v)
  /\ NodeOf(g, v).kind # "Constant"
  /\ v \in DOMAIN value_to_reg_

\* the instructions with an opcode of ops that refer to the register of v
RegisterRefs(g, v, ops) ==
  IF ~Registered(g, v) THEN {}
  ELSE {i \in DOMAIN instructions_ :
          /\ instructions_[i].op \in ops
          /\ instructions_[i].X = value_to_reg_[v]
          /\ \E j \in DOMAIN NodeById(g, instructions_source_[i]).inputs :
                NodeById(g, instructions_source_[i]).inputs[j] = v}

\* the LOADC instructions that refer to the constant-table entry of v
ConstantRefs(g, v) ==
  IF NodeOf(g, v).kind # "Constant" \/ v \notin DOMAIN value_to_reg_ THEN {}
  ELSE {i \in DOMAIN instructions_ :
          /\ instructions_[i].op = "LOADC"
          /\ instructions_[i].X = value_to_reg_[v]
          /\ \E j \in DOMAIN NodeById(g, instructions_source_[i]).inputs :
                NodeById(g, instructions_source_[i]).inputs[j] = v}

\* the lowerings of the node of v at a use site
InlineEmissions(g, v) ==
  IF AtBlockLevel(g, v) THEN 0 ELSE Emissions(NodeOf(g, v))

Stores(g, v) ==
  IF ~Registered(g, v) THEN {}
  ELSE {i \in DOMAIN instructions_ :
          \/ /\ instructions_[i].op = "STORE"
             /\ instructions_[i].X = value_to_reg_[v]
          \/ /\ instructions_[i].op = "STOREN"
             /\ instructions_[i].X <= value_to_reg_[v]
             /\ value_to_reg_[v] < instructions_[i].X + instructions_[i].N}

Program(s) ==
  <<s.instructions_, s.constant_table_, s.operator_table_, s.function_table_,
    s.type_table_>>

----------------------------------------------------------------------------
(* Where the code of a block lies in the final program.  Indices of        *)
(* instructions_ are counted from 1 in the sets below; instruction i of    *)
(* the code is instructions_[i + 1].                                       *)

\* the length of the program before the bailout blocks
MainLength ==
  Len(instructions_) - BlocksLength(bailout_blocks_, Len(bailout_blocks_))

\* the instructions emitted for the nodes of block b, nested blocks
\* included, that lie in line (those moved to a bailout block lie after
\* MainLength)
BlockCode(b) ==
  {i \in 1..MainLength :
     instructions_source_[i] \in {n.id : n \in NodesOfBlock(b)}}

\* the instructions with opcode op emitted for the nodes of a kind
InstructionsOf(op, kind) ==
  {i \in 1..MainLength :
     /\ instructions_[i].op = op
     /\ NodeById(Deref(graph_), instructions_source_[i]).kind = kind}

\* the node an instruction was emitted for
SourceNode(i) == NodeById(Deref(graph_), instructions_source_[i])

\* C15 as stated: the X of the JF of an If is the number of instructions of
\* the true branch plus one.
C15_JFBranchPlusOne ==
  pc = "done" =>
    \A i \in InstructionsOf("JF", "If") :
      instructions_[i].X
        = Cardinality(BlockCode(SourceNode(i).blocks[1])) + 1

\* C15 (amended): the X of the JF of an If is the number of instructions the
\* true branch leaves in line plus two (the JF itself and the JMP): the true
\* branch is the X - 2 instructions after the JF, the JMP of the If follows
\* it, and X added to the index of the JF is the index of the first
\* instruction of the false branch.
C15_JFOffset ==
  pc = "done" =>
    \A i \in InstructionsOf("JF", "If") :
      /\ instructions_[i].X
           = Cardinality(BlockCode(SourceNode(i).blocks[1])) + 2
      /\ BlockCode(SourceNode(i).blocks[1])
           = (i + 1)..(i + instructions_[i].X - 2)
      /\ instructions_[i + instructions_[i].X - 1].op = "JMP"
      /\ instructions_source_[i + instructions_[i].X - 1]
           = instructions_source_[i]
      /\ \A k \in BlockCode(SourceNode(i).blocks[2]) :
           k >= i + instructions_[i].X
      /\ BlockCode(SourceNode(i).blocks[2]) # {} =>
           i + instructions_[i].X \in BlockCode(SourceNode(i).blocks[2])

\* a finished program with an If whose true branch holds a guard and whose
\* false branch is not empty
C15_Witness ==
  /\ pc = "done"
  /\ \E i \in InstructionsOf("JF", "If") :
       /\ instructions_[i].X >= 5
       /\ \E k \in BlockCode(SourceNode(i).blocks[1]) :
            instructions_[k].op \in {"GUARD", "FAIL_GUARD"}
       /\ BlockCode(SourceNode(i).blocks[2]) # {}

\* C16: the X of the JMP that ends the true branch of an If is the number of
\* instructions of the false branch plus one: the false branch is the X - 1
\* instructions after the JMP, and X added to the index of the JMP is the
\* index of the first instruction after the false branch, so the true branch
\* runs into the JMP and past the false branch, and the JF jumps over the
\* true branch and the JMP.
C16_JMPOffset ==
  pc = "done" =>
    \A i \in InstructionsOf("JMP", "If") :
      /\ instructions_[i].X
           = Cardinality(BlockCode(SourceNode(i).blocks[2])) + 1
      /\ BlockCode(SourceNode(i).blocks[2])
           = (i + 1)..(i + instructions_[i].X - 1)
      /\ i + instructions_[i].X <= MainLength
      /\ instructions_source_[i + instructions_[i].X]
           \notin {n.id : n \in NodesOfBlocks(SourceNode(i).blocks)}
      /\ \E j \in InstructionsOf("JF", "If") :
           /\ instructions_source_[j] = instructions_source_[i]
           /\ j + instructions_[j].X = i + 1
           /\ BlockCode(SourceNode(i).blocks[1]) = (j + 1)..(i - 1)

\* a finished program with an If whose branches are both not empty and
\* whose false branch holds a guard, the bailout block of the guard lying
\* after the main program
C16_Witness ==
  /\ pc = "done"
  /\ \E i \in InstructionsOf("JMP", "If") :
       /\ instructions_[i].X >= 3
       /\ BlockCode(SourceNode(i).blocks[1]) # {}
       /\ \E k \in BlockCode(SourceNode(i).blocks[2]) :
            instructions_[k].op \in {"GUARD", "FAIL_GUARD"}
       /\ \E k \in (MainLength + 1)..Len(instructions_) :
            instructions_source_[k]
              \in {n.id : n \in NodesOfBlock(SourceNode(i).blocks[2])}

\* C17 as stated: the N of a LOOP is the number of loop-carried values of
\* the Loop node (its outputs), 0 for a Loop that carries none.
C17_CarriedOnly ==
  pc = "done" =>
    \A i \in InstructionsOf("LOOP", "Loop") :
      instructions_[i].N = Len(SourceNode(i).outputs)

\* C17 (amended): the N of a LOOP is the number of inputs of the Loop node:
\* the trip count, the condition and the loop-carried values, so 2 more
\* than the number of loop-carried values, and 2 for a Loop that carries
\* none.
C17_LoopArity ==
  pc = "done" =>
    \A i \in InstructionsOf("LOOP", "Loop") :
      /\ instructions_[i].N = Len(SourceNode(i).inputs)
      /\ instructions_[i].N = Len(SourceNode(i).outputs) + 2
      /\ instructions_[i].N
           = Len(SourceNode(i).blocks[1].param.outputs) + 1

\* a finished program with the LOOP of a Loop that carries no value and
\* whose body reads a value of the enclosing block
C17_Witness ==
  /\ pc = "done"
  /\ \E i \in InstructionsOf("LOOP", "Loop") :
       /\ SourceNode(i).outputs = <<>>
       /\ instructions_[i].N = 2
       /\ \E k \in BlockCode(SourceNode(i).blocks[1]) :
            instructions_[k].op = "OP"

\* C18 as stated: the X of a LOOP is the number of instructions of the loop
\* body plus one.
C18_BodyPlusOne ==
  pc = "done" =>
    \A i \in InstructionsOf("LOOP", "Loop") :
      instructions_[i].X
        = Cardinality(BlockCode(SourceNode(i).blocks[1])) + 1

\* C18 (amended): the X of a LOOP is the number of instructions the loop
\* body leaves in line plus two (the LOOP itself and the backward JMP): the
\* body is the X - 2 instructions after the LOOP, the JMP of the Loop
\* follows it and leads back to the LOOP, and X added to the index of the
\* LOOP is the index of the instruction after that JMP.
C18_LoopOffset ==
  pc = "done" =>
    \A i \in InstructionsOf("LOOP", "Loop") :
      /\ instructions_[i].X
           = Cardinality(BlockCode(SourceNode(i).blocks[1])) + 2
      /\ BlockCode(SourceNode(i).blocks[1])
           = (i + 1)..(i + instructions_[i].X - 2)
      /\ instructions_[i + instructions_[i].X - 1].op = "JMP"
      /\ instructions_source_[i + instructions_[i].X - 1]
           = instructions_source_[i]
      /\ instructions_[i + instructions_[i].X - 1].X
           = 1 - instructions_[i].X
      /\ i + instructions_[i].X <= MainLength

\* a finished program with a Loop whose body holds a guard and a nested
\* block
C18_Witness ==
  /\ pc = "done"
  /\ \E i \in InstructionsOf("LOOP", "Loop") :
       /\ instructions_[i].X >= 6
       /\ \E k \in BlockCode(SourceNode(i).blocks[1]) :
            instructions_[k].op \in {"GUARD", "FAIL_GUARD"}
       /\ \E k \in BlockCode(SourceNode(i).blocks[1]) :
            instructions_[k].op = "DROPR"

\* the index, counted from 1, of the instruction a jump of the main program
\* leads to: what follows the JMP of the If for its JF, what follows the
\* false branch for that JMP, what follows the backward JMP for a LOOP, the
\* LOOP for that JMP, the start of its bailout block for the JF of a guard
JumpTarget(i) ==
  CASE instructions_[i].op = "JF" /\ SourceNode(i).kind = "If" ->
         1 + (CHOOSE j \in InstructionsOf("JMP", "If") :
                instructions_source_[j] = instructions_source_[i])
    [] instructions_[i].op = "JMP" /\ SourceNode(i).kind = "If" ->
         i + 1 + Cardinality(BlockCode(SourceNode(i).blocks[2]))
    [] instructions_[i].op = "LOOP" ->
         1 + (CHOOSE j \in InstructionsOf("JMP", "Loop") :
                instructions_source_[j] = instructions_source_[i])
    [] instructions_[i].op = "JMP" /\ SourceNode(i).kind = "Loop" ->
         CHOOSE j \in InstructionsOf("LOOP", "Loop") :
           instructions_source_[j] = instructions_source_[i]
    [] instructions_[i].op = "JF" /\ SourceNode(i).kind = "BailOut" ->
         MainLength + 1
           + BlocksLength(bailout_blocks_,
               (CHOOSE k \in DOMAIN bailout_blocks_ :
                  bailout_blocks_[k].jf_instruction_index = i - 1) - 1)

\* the jumps of the main program
Jumps == {i \in 1..MainLength : instructions_[i].op \in {"JF", "JMP", "LOOP"}}

\* C19 as stated: the X of every JF, JMP and LOOP is the index of its
\* target in the program.
C19_AbsoluteOperands ==
  pc = "done" => \A i \in Jumps : instructions_[i].X = JumpTarget(i) - 1

\* C19 (amended): the X of every JF, JMP and LOOP is the offset of its
\* target from the jumping instruction: the index of the target is the
\* index of the jump plus X, and X is negative for the backward JMP of a
\* Loop.
C19_RelativeOperands ==
  pc = "done" =>
    \A i \in Jumps :
      /\ i + instructions_[i].X = JumpTarget(i)
      /\ instructions_[i].op = "JMP" /\ SourceNode(i).kind = "Loop" =>
           instructions_[i].X < 0

\* a finished program with the jumps of an If, of a Loop nested in it and
\* of a guard
C19_Witness ==
  /\ pc = "done"
  /\ \E i \in Jumps : instructions_[i].op = "JMP" /\ instructions_[i].X < 0
  /\ \E i \in Jumps : instructions_[i].op = "JF" /\ SourceNode(i).kind = "If"
  /\ \E i \in Jumps :
       /\ instructions_[i].op = "JF"
       /\ SourceNode(i).kind = "BailOut"
       /\ i + instructions_[i].X > MainLength + 1

----------------------------------------------------------------------------
(* The order of the OP instructions *)

\* current_node_ is another node of the block of last_inserted_op_ and is
\* not after it
OutOfOrder ==
  /\ last_inserted_op_ # NoNode
  /\ current_node_ # last_inserted_op_
  /\ NodeById(Deref(graph_), current_node_).owner
       = NodeById(Deref(graph_), last_inserted_op_).owner
  /\ NodeById(Deref(graph_), current_node_).topo
       <= NodeById(Deref(graph_), last_inserted_op_).topo

\* a call of insertInstruction fails with the assertion exactly when it
\* emits an OP out of order, the instruction being appended all the same
CheckedInsert ==
  pc = "insert" /\ pos' = pos + 1 =>
    /\ Len(instructions_') = Len(instructions_) + 1
    /\ instructions_source_'[Len(instructions_')] = current_node_
    /\ (pc' = "failed" /\ err' = "assert")
         <=> (instructions_'[Len(instructions_')].op = "OP" /\ OutOfOrder)
    /\ pc' # "failed" => pc' = "insert" /\ err' = "none"

\* the OP instructions, in the order of their emission
Ops == {i \in DOMAIN instructions_ : instructions_[i].op = "OP"}

\* the node of instruction i is a node of the block of the node of
\* instruction j and comes before it
Backwards(j, i) ==
  /\ SourceNode(i).owner = SourceNode(j).owner
  /\ SourceNode(i).topo < SourceNode(j).topo

----------------------------------------------------------------------------
\* the nodes lowered by the default case of emitNode for which no operator
\* is registered
Unhandled(g) == {n \in AllNodes(g) : n.kind = "Op" /\ ~n.op.found}

----------------------------------------------------------------------------
\* the instruction a call of insertInstruction has appended
Inserted == instructions_'[Len(instructions_')]

\* the operand fits the field of the instruction
FitsX(X) == -2147483647 - 1 <= X /\ X <= 2147483647
FitsN(N) == 0 <= N /\ N <= 65535

\* C22 as stated: a call of insertInstruction whose X or N does not fit the
\* field ends the compilation, and every other call stores the X and the N
\* it was given.
C22_OperandRange ==
  [][\A i \in Instructions :
       InsertInstruction(i[1], i[2], i[3]) =>
         IF FitsX(i[2]) /\ FitsN(i[3])
         THEN Inserted = Instruction(i[1], i[2], i[3])
         ELSE pc' = "failed"
    ]_vars

\* C22 (amended): no call of insertInstruction ends the compilation because
\* of the range of an operand (the only failure is the assertion on the
\* order of OPs); an X of the int32_t range is stored as it is, and N is
\* stored modulo 2^16: as it is when it fits uint16_t, wrapped around when
\* it does not.
C22_OperandWraps ==
  [][\A i \in Instructions :
       InsertInstruction(i[1], i[2], i[3]) =>
         /\ Len(instructions_') = Len(instructions_) + 1
         /\ Inserted.op = i[1]
         /\ FitsX(i[2]) => Inserted.X = i[2]
         /\ Inserted.N = i[3] % 65536
         /\ FitsN(i[3]) => Inserted.N = i[3]
         /\ pc' = "failed" => i[1] = "OP" /\ OutOfOrder /\ err' = "assert"
    ]_vars

\* a STOREN whose N did not fit was inserted with a wrapped N and the
\* compilation went on to insert a LOOP whose N fits
C22_Witness ==
  /\ pc = "insert"
  /\ err = "none"
  /\ \E i, j \in DOMAIN instructions_ :
       /\ i < j
       /\ instructions_[i] = Instruction("STOREN", 1, 1)
       /\ instructions_[j] = Instruction("LOOP", 0, 65535)

----------------------------------------------------------------------------
\* the call sites of the operator with a unique name: the nodes of the
\* graph, at any depth, for which that operator is found
CallSites(g, name) ==
  {n \in AllNodes(g) : n.op.found /\ unique_name(n.op) = name}

\* the unique names of the operators with a schema that is not vararg
FixedArityNames(g) ==
  {unique_name(n.op) : n \in {m \in AllNodes(g) : m.op.found
                                                  /\ ~m.op.is_vararg}}

NecessaryArgs(g, n) == CalculateNecessaryArgs(g, n.op.arguments, n.inputs)

\* C23: once process_ops_for_mobile has run, the keys of
\* op_to_num_specified_args_ are the unique names of the operators with a
\* non-vararg schema found for the nodes of the graph, nested blocks
\* included, and no other; the value of a key is the largest
\* CalculateNecessaryArgs of the call sites of that operator.  The table is
\* empty before, and emission leaves it as it is.
C23_SpecializationTable ==
  IF pc = "mobile" THEN op_to_num_specified_args_ = EmptyMap
  ELSE /\ DOMAIN op_to_num_specified_args_ = FixedArityNames(Deref(graph_))
       /\ \A n \in AllNodes(Deref(graph_)) :
            n.op.found /\ n.op.is_vararg =>
              unique_name(n.op) \notin DOMAIN op_to_num_specified_args_
       /\ \A name \in DOMAIN op_to_num_specified_args_ :
            /\ \E n \in CallSites(Deref(graph_), name) :
                 op_to_num_specified_args_[name]
                   = NecessaryArgs(Deref(graph_), n)
            /\ \A n \in CallSites(Deref(graph_), name) :
                 op_to_num_specified_args_[name]
                   >= NecessaryArgs(Deref(graph_), n)

\* the table of a finished mobile program records 3 for aten::foo.str,
\* which its call site inside the If needs, while the call site of the root
\* block, visited first, needs 1; it has no entry for the vararg operators
C23_Witness ==
  /\ pc = "done"
  /\ dynamic_type = "MobileCodeImpl"
  /\ op_to_num_specified_args_["aten::foo.str"] = 3
  /\ NecessaryArgs(Deref(graph_), NodeById(Deref(graph_), 5)) = 1
  /\ NecessaryArgs(Deref(graph_), NodeById(Deref(graph_), 8)) = 3
  /\ NodeById(Deref(graph_), 8).owner # NodeById(Deref(graph_), 5).owner
  /\ "aten::format" \notin DOMAIN op_to_num_specified_args_
  /\ op_to_num_specified_args_["aten::op"] = 2

----------------------------------------------------------------------------
\* the load instructions emitted for node n itself, and its OP or OPN
LoadsOf(n) ==
  {i \in DOMAIN instructions_ :
     /\ instructions_source_[i] = n.id
     /\ instructions_[i].op \in {"LOAD", "MOVE", "LOADC"}}
OperatorOf(n) ==
  {i \in DOMAIN instructions_ :
     /\ instructions_source_[i] = n.id
     /\ instructions_[i].op \in {"OP", "OPN"}}

\* those of the first c inputs of n that are read from a register or from
\* the constant table
LoadedInputs(g, n, c) ==
  {j \in DOMAIN n.inputs :
     j <= c /\ NodeOf(g, n.inputs[j]).id \notin g.can_emit_inline}

\* the instruction of node n is preceded by the loads of its first c inputs
\* and of no other: the j-th load emitted for n reads the j-th of these
\* inputs that is not emitted inline, as LOADC when it is a constant, and an
\* input emitted inline has its instructions before that of n
PrecededByLoads(g, n, c) ==
  /\ Cardinality(OperatorOf(n)) = 1
  /\ \A o \in OperatorOf(n), i \in LoadsOf(n) : i < o
  /\ Cardinality(LoadsOf(n)) = Cardinality(LoadedInputs(g, n, c))
  /\ \A j \in LoadedInputs(g, n, c) :
       \E i \in LoadsOf(n) :
         /\ Cardinality({k \in LoadsOf(n) : k <= i})
              = Cardinality({k \in LoadedInputs(g, n, c) : k <= j})
         /\ instructions_[i].X = value_to_reg_[n.inputs[j]]
         /\ (instructions_[i].op = "LOADC")
              <=> (NodeOf(g, n.inputs[j]).kind = "Constant")
  /\ \A j \in DOMAIN n.inputs :
       j <= c /\ NodeOf(g, n.inputs[j]).id \in g.can_emit_inline =>
         \E i \in DOMAIN instructions_ :
           /\ instructions_source_[i] = NodeOf(g, n.inputs[j]).id
           /\ \A o \in OperatorOf(n) : i < o

\* the nodes emitOperator lowers whose operator has, or has not, an entry
\* in op_to_num_specified_args_
Recorded(g) ==
  {n \in AllNodes(g) :
     /\ n.kind = "Op" /\ n.op.found
     /\ unique_name(n.op) \in DOMAIN op_to_num_specified_args_}
NotRecorded(g) ==
  {n \in AllNodes(g) :
     /\ n.kind = "Op" /\ n.op.found
     /\ unique_name(n.op) \notin DOMAIN op_to_num_specified_args_}

\* C24 as stated: in a finished MobileCodeImpl program the OP of a call of
\* an operator recorded with the count c is preceded by the loads of the
\* first c inputs of the node only.
C24_ArgumentOmission ==
  pc = "done" /\ dynamic_type = "MobileCodeImpl" =>
    \A n \in Recorded(Deref(graph_)) :
      PrecededByLoads(Deref(graph_), n,
                      op_to_num_specified_args_[unique_name(n.op)])

\* C24 (amended): in a finished MobileCodeImpl program the OP of a call of
\* an operator recorded in op_to_num_specified_args_ is preceded by the
\* loads of all the inputs of the node, whatever the count recorded.
C24_AllArgumentsLoaded ==
  pc = "done" /\ dynamic_type = "MobileCodeImpl" =>
    \A n \in Recorded(Deref(graph_)) :
      /\ PrecededByLoads(Deref(graph_), n, Len(n.inputs))
      /\ \A o \in OperatorOf(n) : instructions_[o].op = "OP"

\* a finished mobile program in which both calls of aten::foo.str pass the
\* defaults, the count recorded is 1, and three loads precede each OP
C24_Witness ==
  /\ pc = "done"
  /\ dynamic_type = "MobileCodeImpl"
  /\ op_to_num_specified_args_["aten::foo.str"] = 1
  /\ \A n \in CallSites(Deref(graph_), "aten::foo.str") :
       /\ n \in Recorded(Deref(graph_))
       /\ Len(n.inputs) = 3
       /\ Cardinality(LoadsOf(n)) = 3

\* C25: in a finished MobileCodeImpl program the OP or OPN of a call of an
\* operator that has no entry in op_to_num_specified_args_ is preceded by
\* the loads of all the inputs of the node; the OPN of a vararg operator
\* carries their number.
C25_FallbackLoadsAll ==
  pc = "done" /\ dynamic_type = "MobileCodeImpl" =>
    \A n \in NotRecorded(Deref(graph_)) :
      /\ PrecededByLoads(Deref(graph_), n, Len(n.inputs))
      /\ \A o \in OperatorOf(n) :
           instructions_[o].op = "OPN" => instructions_[o].N = Len(n.inputs)

\* a finished mobile program with an OPN and an OP of operators that are
\* not in the table, each after the loads of its two inputs, one of them
\* emitted inline
C25_Witness ==
  /\ pc = "done"
  /\ dynamic_type = "MobileCodeImpl"
  /\ \E n, m \in NotRecorded(Deref(graph_)) :
       /\ Len(n.inputs) = 2 /\ Cardinality(LoadsOf(n)) = 2
       /\ \E o \in OperatorOf(n) : instructions_[o] = Instruction("OPN", 2, 2)
       /\ Len(m.inputs) = 2 /\ Cardinality(LoadsOf(m)) = 1
       /\ \E o \in OperatorOf(m) : instructions_[o].op = "OP"

----------------------------------------------------------------------------
\* the instruction the interpreter is about to execute
Current == instructions_[frame.pc + 1]

\* the instructions (from 1) of the body of the loop whose LOOP is
\* instruction l: those between the LOOP and its JMP
LoopBody(l) == (l + 1) .. (l + instructions_[l].X - 2)

----------------------------------------------------------------------------
\* C27: the lowering of a Loop node leaves, in this order: a LOADC whose X
\* is the index of an entry of constant_table_ that holds 0 and that no
\* other LOADC and no Constant node refers to; the loads of all inputs of
\* the Loop, each input emitted inline having its instructions there
\* instead; one LOOP; the instructions of the body block, once; and one JMP
\* whose X is negative and, added to the index of the JMP, gives the index
\* of the LOOP.  The X of the LOOP added to its index gives the index of
\* the instruction right after the JMP.
C27_LoopStructure ==
  pc = "done" =>
    \A i \in InstructionsOf("LOOP", "Loop") :
      /\ \A k \in InstructionsOf("LOOP", "Loop") :
           instructions_source_[k] = instructions_source_[i] => k = i
      /\ \E z \in LoadsOf(SourceNode(i)) :
           /\ \A k \in LoadsOf(SourceNode(i)) : z <= k /\ k < i
           /\ instructions_[z].op = "LOADC"
           /\ instructions_[z].X + 1 \in DOMAIN constant_table_
           /\ \A k \in DOMAIN instructions_ :
                instructions_[k].op = "LOADC" /\ k # z =>
                  instructions_[k].X # instructions_[z].X
           /\ \A v \in DOMAIN value_to_reg_ :
                NodeOf(Deref(graph_), v).kind = "Constant" =>
                  value_to_reg_[v] # instructions_[z].X
           /\ constant_table_[instructions_[z].X + 1] = 0
           /\ \A k \in z..i :
                \/ instructions_source_[k] = instructions_source_[i]
                \/ instructions_source_[k] \in Deref(graph_).can_emit_inline
                \/ \E m \in AllNodes(Deref(graph_)) :
                     /\ m.id \in Deref(graph_).can_emit_inline
                     /\ instructions_source_[k]
                          \in {n.id : n \in NodesOfBlocks(m.blocks)}
      /\ Cardinality(LoadsOf(SourceNode(i)))
           = 1 + Cardinality(LoadedInputs(Deref(graph_), SourceNode(i),
                                          Len(SourceNode(i).inputs)))
      /\ \A j \in LoadedInputs(Deref(graph_), SourceNode(i),
                               Len(SourceNode(i).inputs)) :
           \E k \in LoadsOf(SourceNode(i)) :
             /\ Cardinality({m \in LoadsOf(SourceNode(i)) : m <= k})
                  = 1 + Cardinality(
                          {m \in LoadedInputs(Deref(graph_), SourceNode(i),
                                              Len(SourceNode(i).inputs)) :
                             m <= j})
             /\ instructions_[k].X = value_to_reg_[SourceNode(i).inputs[j]]
             /\ (instructions_[k].op = "LOADC")
                  <=> (NodeOf(Deref(graph_), SourceNode(i).inputs[j]).kind
                         = "Constant")
      /\ BlockCode(SourceNode(i).blocks[1])
           = (i + 1)..(i + instructions_[i].X - 2)
      /\ \A n \in NodesOfBlock(SourceNode(i).blocks[1]) :
           \A k \in 1..MainLength :
             instructions_source_[k] = n.id =>
               k \in BlockCode(SourceNode(i).blocks[1])
      /\ \E j \in InstructionsOf("JMP", "Loop") :
           /\ instructions_source_[j] = instructions_source_[i]
           /\ j = i + instructions_[i].X - 1
           /\ instructions_[j].X < 0
           /\ j + instructions_[j].X = i
           /\ \A k \in InstructionsOf("JMP", "Loop") :
                instructions_source_[k] = instructions_source_[i] => k = j
      /\ i + instructions_[i].X <= MainLength
      /\ i + instructions_[i].X
           = 1 + CHOOSE j \in InstructionsOf("JMP", "Loop") :
                   instructions_source_[j] = instructions_source_[i]

\* a finished program with a Loop that carries a value, takes a constant
\* among its inputs (so its loads hold a second LOADC, and the entry for 0
\* is not the first of constant_table_) and holds a guard in its body, the
\* bailout block of the guard lying after the main program
C27_Witness ==
  /\ pc = "done"
  /\ \E i \in InstructionsOf("LOOP", "Loop") :
       /\ Len(SourceNode(i).inputs) >= 3
       /\ Cardinality({k \in LoadsOf(SourceNode(i)) :
                         instructions_[k].op = "LOADC"}) >= 2
       /\ \E z \in LoadsOf(SourceNode(i)) :
            /\ \A k \in LoadsOf(SourceNode(i)) : z <= k
            /\ instructions_[z].X > 0
       /\ \E k \in BlockCode(SourceNode(i).blocks[1]) :
            instructions_[k].op = "GUARD"
       /\ \E k \in (MainLength + 1)..Len(instructions_) :
            instructions_source_[k]
              \in {n.id : n \in NodesOfBlock(SourceNode(i).blocks[1])}

----------------------------------------------------------------------------
\* the instructions of the main program emitted for the BailOut node n,
\* the store of its output apart, and those of its bailout block
GuardCode(n) ==
  {i \in 1..MainLength :
     instructions_source_[i] = n.id /\ instructions_[i].op # "STORE"}
BailoutCode(n) ==
  {i \in (MainLength + 1)..Len(instructions_) :
     instructions_source_[i] = n.id}

\* the inputs of the BailOut node n after the guarded one
LiveInputs(n) == {j \in DOMAIN n.inputs : j >= 3}

\* r is what emitBailOut(node) makes of s: a new last entry of
\* type_table_, the output type of the node; a new last entry of
\* function_table_; a new last bailout block, with the index of the JF,
\* holding the loads of the live inputs and the TAIL_CALL; instructions_
\* ends with GUARD and JF, the JF at that index, after the load of the
\* guarded input or, when that input is emitted inline, after its
\* instructions (which may add entries of their own to the tables); the
\* template (input 0) is not loaded
Lowered(s, r, node) ==
  /\ r.err = s.err
  /\ Len(r.type_table_) > Len(s.type_table_)
  /\ SubSeq(r.type_table_, 1, Len(s.type_table_)) = s.type_table_
  /\ r.type_table_[Len(r.type_table_)] = TypeOf(node.outputs[1])
  /\ Len(r.function_table_) > Len(s.function_table_)
  /\ SubSeq(r.function_table_, 1, Len(s.function_table_))
       = s.function_table_
  /\ r.function_table_[Len(r.function_table_)] = BailoutFunction(node)
  /\ Len(r.bailout_blocks_) > Len(s.bailout_blocks_)
  /\ SubSeq(r.bailout_blocks_, 1, Len(s.bailout_blocks_)) = s.bailout_blocks_
  /\ r.bailout_blocks_[Len(r.bailout_blocks_)].jf_instruction_index
       = Len(r.instructions_) - 1
  /\ r.instructions_[Len(r.instructions_)] = Instruction("JF", 0, 0)
  /\ r.instructions_[Len(r.instructions_) - 1]
       = Instruction("GUARD", Len(r.type_table_) - 1, 0)
  /\ SubSeq(r.instructions_, 1, Len(s.instructions_)) = s.instructions_
  /\ NodeOf(s.graph_, node.inputs[2]).id \notin s.graph_.can_emit_inline =>
       /\ Len(r.instructions_) = Len(s.instructions_) + 3
       /\ Len(r.type_table_) = Len(s.type_table_) + 1
       /\ Len(r.function_table_) = Len(s.function_table_) + 1
       /\ Len(r.bailout_blocks_) = Len(s.bailout_blocks_) + 1
       /\ r.instructions_[Len(r.instructions_) - 2].op \in {"LOAD", "MOVE"}
       /\ r.instructions_[Len(r.instructions_) - 2].X
            = s.value_to_reg_[node.inputs[2]]
  /\ Len(r.bailout_blocks_[Len(r.bailout_blocks_)].instructions)
       = Cardinality(LiveInputs(node)) + 1
  /\ \A j \in LiveInputs(node) :
       /\ r.bailout_blocks_[Len(r.bailout_blocks_)].instructions[j - 2].op
            \in {"LOAD", "MOVE"}
       /\ r.bailout_blocks_[Len(r.bailout_blocks_)].instructions[j - 2].X
            = s.value_to_reg_[node.inputs[j]]
  /\ r.bailout_blocks_[Len(r.bailout_blocks_)]
        .instructions[Cardinality(LiveInputs(node)) + 1]
       = Instruction("TAIL_CALL", Len(r.function_table_) - 1, 0)

\* C28: emitBailOut leaves at the end of instructions_ the load of the
\* guarded value (input 1), a GUARD whose X is the index of the entry it
\* appended to type_table_, the output type of the node, and a JF that is
\* the last instruction at that moment; the loads of the inputs from 2 on
\* and the TAIL_CALL are in a new bailout block whose
\* jf_instruction_index is the index of that JF.  In the finished program
\* the main program holds for a BailOut node, the store of its output
\* apart, nothing but that load (none when the guarded input is emitted
\* inline), the GUARD or FAIL_GUARD and the JF right after it, and the
\* instructions after the RET emitted for the node are the loads of inputs
\* 2.. in order and the TAIL_CALL; input 0 is loaded by neither.
C28_GuardLowering ==
  /\ pc = "emit" /\ RootNodes(graph_)[pos + 1].kind = "BailOut" =>
       Lowered([Self EXCEPT !.current_node_ = RootNodes(graph_)[pos + 1].id],
               emitBailOut(
                 [Self EXCEPT
                    !.current_node_ = RootNodes(graph_)[pos + 1].id],
                 RootNodes(graph_)[pos + 1]),
               RootNodes(graph_)[pos + 1])
  /\ pc = "done" =>
       \A n \in {m \in AllNodes(Deref(graph_)) : m.kind = "BailOut"} :
         /\ \E g \in GuardCode(n) :
              /\ instructions_[g].op \in {"GUARD", "FAIL_GUARD"}
              /\ type_table_[instructions_[g].X + 1] = TypeOf(n.outputs[1])
              /\ \A k \in DOMAIN instructions_ :
                   k # g /\ instructions_[k].op \in {"GUARD", "FAIL_GUARD"} =>
                     instructions_[k].X # instructions_[g].X
              /\ g + 1 \in GuardCode(n)
              /\ instructions_[g + 1].op = "JF"
              /\ IF NodeOf(Deref(graph_), n.inputs[2]).id
                      \in Deref(graph_).can_emit_inline
                 THEN GuardCode(n) = {g, g + 1}
                 ELSE /\ GuardCode(n) = {g - 1, g, g + 1}
                      /\ instructions_[g - 1].op \in {"LOAD", "MOVE"}
                      /\ instructions_[g - 1].X = value_to_reg_[n.inputs[2]]
         /\ \E b \in 1..Len(instructions_) :
              /\ BailoutCode(n) = b..(b + Cardinality(LiveInputs(n)))
              /\ \A j \in LiveInputs(n) :
                   /\ instructions_[b + j - 3].op \in {"LOAD", "MOVE"}
                   /\ instructions_[b + j - 3].X = value_to_reg_[n.inputs[j]]
              /\ instructions_[b + Cardinality(LiveInputs(n))].op
                   = "TAIL_CALL"
              /\ function_table_[
                   instructions_[b + Cardinality(LiveInputs(n))].X + 1]
                   = BailoutFunction(n)

\* the BailOut node of the root block lowered last has live inputs after
\* the guarded one and is not the first guard: its JF, then the last
\* instruction but for the store of the output, is recorded in the last of
\* two or more bailout blocks, which holds the loads and the TAIL_CALL
C28_Witness ==
  /\ pc = "emit"
  /\ pos >= 1
  /\ RootNodes(graph_)[pos].kind = "BailOut"
  /\ Len(RootNodes(graph_)[pos].inputs) >= 3
  /\ Len(bailout_blocks_) >= 2
  /\ Len(bailout_blocks_[Len(bailout_blocks_)].instructions) >= 2
  /\ instructions_[
       bailout_blocks_[Len(bailout_blocks_)].jf_instruction_index + 1].op
       = "JF"
  /\ bailout_blocks_[Len(bailout_blocks_)].jf_instruction_index + 2
       = Len(instructions_)
  /\ instructions_[Len(instructions_)].op = "STORE"

----------------------------------------------------------------------------
\* the values defined by Constant nodes that have an entry of
\* constant_table_
BoundConstants ==
  {v \in DOMAIN value_to_reg_ : NodeOf(Deref(graph_), v).kind = "Constant"}

\* r is what the lowering of the Constant node makes of s: no instruction;
\* for a constant of function type nothing at all; otherwise one more entry
\* of constant_table_, the value of the constant, and the output bound to
\* the index of that entry
ConstantLowered(s, r, node) ==
  /\ r.err = s.err
  /\ r.instructions_ = s.instructions_
  /\ r.register_size_ = s.register_size_
  /\ IF node.fn
     THEN /\ r.constant_table_ = s.constant_table_
          /\ r.value_to_reg_ = s.value_to_reg_
     ELSE /\ r.constant_table_
               = Append(s.constant_table_, toIValue(node.outputs[1]))
          /\ node.outputs[1] \notin DOMAIN s.value_to_reg_
          /\ r.value_to_reg_
               = Put(s.value_to_reg_, node.outputs[1], Len(s.constant_table_))

----------------------------------------------------------------------------
\* the nodes emitNodeAtBlockLevel lowers with emitNode and
\* emitStoreOutputs
BlockLevelNodes(g) ==
  {n \in AllNodes(g) :
     n.kind \notin {"Constant", "Return"} /\ n.id \notin g.can_emit_inline}

\* the store instructions of program instrs emitted for node n
StoresOf(instrs, sources, n) ==
  {i \in DOMAIN instrs :
     sources[i] = n.id /\ instrs[i].op \in {"STORE", "STOREN"}}

\* instruction i of the object r is the store of the outputs of node n:
\* STORE for one output, STOREN with their number for more, X the register
\* of the first output, the others in the registers that follow, none of
\* them the register of another value
StoreOfOutputs(r, n, i) ==
  /\ r.instructions_[i].op
       = (IF Len(n.outputs) = 1 THEN "STORE" ELSE "STOREN")
  /\ r.instructions_[i].N = (IF Len(n.outputs) = 1 THEN 0 ELSE Len(n.outputs))
  /\ \A j \in DOMAIN n.outputs :
       /\ n.outputs[j] \in DOMAIN r.value_to_reg_
       /\ r.value_to_reg_[n.outputs[j]] = r.instructions_[i].X + j - 1
  /\ r.instructions_[i].X >= 1
  /\ r.instructions_[i].X + Len(n.outputs) - 1 <= r.register_size_
  /\ \A w \in DOMAIN r.value_to_reg_ :
       /\ NodeOf(r.graph_, w).kind # "Constant"
       /\ \A j \in DOMAIN n.outputs : n.outputs[j] # w
       => r.value_to_reg_[w]
            \notin r.instructions_[i].X
                     .. (r.instructions_[i].X + Len(n.outputs) - 1)

\* r is what emitNodeAtBlockLevel(node) makes of s, for a node that is not
\* emitted inline: with outputs, its last instruction is the one store
\* emitted for the node, into the registers that follow those of s; without
\* outputs no store is emitted for the node
StoredAfter(s, r, node) ==
  r.err = "none" =>
    IF Len(node.outputs) = 0
    THEN /\ StoresOf(r.instructions_, r.instructions_source_, node) = {}
         /\ node.blocks = <<>> => r.register_size_ = s.register_size_
    ELSE /\ StoresOf(r.instructions_, r.instructions_source_, node)
              = {Len(r.instructions_)}
         /\ Len(r.instructions_) > Len(s.instructions_)
         /\ StoreOfOutputs(r, node, Len(r.instructions_))
         /\ r.instructions_[Len(r.instructions_)].X > s.register_size_
         /\ r.register_size_
              = r.instructions_[Len(r.instructions_)].X
                  + Len(node.outputs) - 1
         /\ \A j \in DOMAIN node.outputs :
              node.outputs[j] \notin DOMAIN s.value_to_reg_

\* C30: a node lowered at block level (not emitted inline, not a Constant,
\* not a Return) that has N >= 1 outputs is followed by one store: STORE
\* with X = r when N = 1, STOREN with X = r and N when N > 1, r being the
\* first of N new consecutive registers given to the outputs in order; a
\* node without outputs gets no store and no register.  The param node of
\* a block is such a node: the program of a graph with k >= 1 inputs
\* begins with the store into registers 1..k.
C30_StoreAfterLowering ==
  /\ /\ pc = "emit"
     /\ RootNodes(graph_)[pos + 1].id
          \in {n.id : n \in BlockLevelNodes(Deref(graph_))}
     => StoredAfter(Self,
                    emitNodeAtBlockLevel(Self, RootNodes(graph_)[pos + 1]),
                    RootNodes(graph_)[pos + 1])
  /\ pc = "done" =>
       /\ \A n \in BlockLevelNodes(Deref(graph_)) :
            IF Len(n.outputs) = 0
            THEN StoresOf(instructions_, instructions_source_, n) = {}
            ELSE \E i \in 1..MainLength :
                   /\ StoresOf(instructions_, instructions_source_, n) = {i}
                   /\ StoreOfOutputs(Self, n, i)
                   /\ \A k \in 1..MainLength :
                        instructions_source_[k] = n.id => k <= i
       /\ \A n \in AllNodes(Deref(graph_)) \ BlockLevelNodes(Deref(graph_)) :
            StoresOf(instructions_, instructions_source_, n) = {}
       /\ Len(Deref(graph_).block.param.outputs) >= 1 =>
            /\ instructions_source_[1] = Deref(graph_).block.param.id
            /\ instructions_[1].X = 1
            /\ StoreOfOutputs(Self, Deref(graph_).block.param, 1)

\* a finished program that begins with the STORE of its one input into
\* register 1 and holds the STOREN of a node with several outputs into
\* later registers, and a node without outputs at block level
C30_Witness ==
  /\ pc = "done"
  /\ instructions_[1] = Instruction("STORE", 1, 0)
  /\ \E n \in BlockLevelNodes(Deref(graph_)) :
       /\ n.kind # "Param"
       /\ Len(n.outputs) >= 2
       /\ \E i \in StoresOf(instructions_, instructions_source_, n) :
            /\ instructions_[i].op = "STOREN"
            /\ instructions_[i].X > 1
            /\ instructions_[i].N = Len(n.outputs)
  /\ \E n \in BlockLevelNodes(Deref(graph_)) :
       n.kind = "Drop" /\ n.outputs = <<>>

----------------------------------------------------------------------------
(* Calls: prim::CallFunction, prim::CallMethod and prim::fork *)

\* the nodes that call, the inputs emitCall, emitInterfaceCall and emitFork
\* are given to load, and the calling instruction of a node
CallNodes(g) ==
  {n \in AllNodes(g) : n.kind \in {"CallFunction", "CallMethod", "fork"}}
CallArguments(n) ==
  {j \in DOMAIN n.inputs : n.kind = "CallFunction" => j > 1}
CallHeads(n) ==
  {i \in DOMAIN instructions_ :
     /\ instructions_source_[i] = n.id
     /\ instructions_[i].op \in {"CALL", "INTERFACE_CALL", "FORK"}}

\* the calling instruction of n follows the loads of its arguments and of
\* nothing else: the k-th load emitted for n reads the k-th argument that is
\* not emitted inline, and an argument emitted inline has its instructions
\* before the calling instruction
ArgumentsLoaded(g, n) ==
  /\ \A h \in CallHeads(n), i \in LoadsOf(n) : i < h
  /\ Cardinality(LoadsOf(n))
       = Cardinality({j \in CallArguments(n) : AtBlockLevel(g, n.inputs[j])})
  /\ \A j \in CallArguments(n) :
       IF AtBlockLevel(g, n.inputs[j])
       THEN \E i \in LoadsOf(n) :
              /\ Cardinality({k \in LoadsOf(n) : k <= i})
                   = Cardinality({k \in CallArguments(n) :
                                    k <= j /\ AtBlockLevel(g, n.inputs[k])})
              /\ instructions_[i].X = value_to_reg_[n.inputs[j]]
       ELSE \E i \in DOMAIN instructions_ :
              /\ instructions_source_[i] = NodeOf(g, n.inputs[j]).id
              /\ \A h \in CallHeads(n) : i < h

\* the calling instruction h of n names the callee of n
CalleeNamed(n, h) ==
  CASE n.kind = "CallMethod" /\ ~n.class_type ->
         /\ instructions_[h].op = "INTERFACE_CALL"
         /\ instructions_[h].X < Len(constant_table_)
         /\ constant_table_[instructions_[h].X + 1] = <<"string", n.name>>
    [] n.kind = "fork" ->
         /\ instructions_[h].op = "FORK"
         /\ instructions_[h].X < Len(function_table_)
         /\ function_table_[instructions_[h].X + 1] = <<"forked", n.id>>
    [] OTHER ->
         /\ instructions_[h].op = "CALL"
         /\ instructions_[h].X < Len(function_table_)
         /\ function_table_[instructions_[h].X + 1] = FunctionOf(n)

\* C31 as stated: in the final program every call that was lowered has one
\* calling instruction, after the loads of its arguments, that names the
\* callee and whose N is the number of arguments loaded.
C31_CallLowering ==
  pc = "done" =>
    \A n \in CallNodes(Deref(graph_)) :
      ~Skipped(Deref(graph_), FLAGS_torch_jit_disable_warning_prints, n) =>
        /\ Cardinality(CallHeads(n)) = 1
        /\ ArgumentsLoaded(Deref(graph_), n)
        /\ \A h \in CallHeads(n) :
             /\ CalleeNamed(n, h)
             /\ instructions_[h].N = Cardinality(CallArguments(n))

\* C31 (amended): in the final program every call that was lowered has one
\* calling instruction, after the loads of its arguments, that names the
\* callee: a CALL indexes function_table_ and its N is 0, a FORK indexes
\* function_table_ and an INTERFACE_CALL the constant of the method name in
\* constant_table_, and their N is the number of inputs of the node.
C31_CallLoweringCallWithoutCount ==
  pc = "done" =>
    \A n \in CallNodes(Deref(graph_)) :
      ~Skipped(Deref(graph_), FLAGS_torch_jit_disable_warning_prints, n) =>
        /\ Cardinality(CallHeads(n)) = 1
        /\ ArgumentsLoaded(Deref(graph_), n)
        /\ \A h \in CallHeads(n) :
             /\ CalleeNamed(n, h)
             /\ instructions_[h].N
                  = IF instructions_[h].op = "CALL" THEN 0
                    ELSE Len(n.inputs)

\* a finished program with a CALL of a method whose node has two inputs, an
\* INTERFACE_CALL one of whose arguments is a call emitted inline, and a
\* FORK
C31_Witness ==
  /\ pc = "done"
  /\ \E n, m, f \in CallNodes(Deref(graph_)) :
       /\ n.kind = "CallMethod" /\ n.class_type /\ Len(n.inputs) = 2
       /\ n.id \in Deref(graph_).can_emit_inline
       /\ m.kind = "CallMethod" /\ ~m.class_type
       /\ n.outputs[1] \in {m.inputs[j] : j \in DOMAIN m.inputs}
       /\ f.kind = "fork"
       /\ \E i, j, k \in DOMAIN instructions_ :
            /\ i < j /\ j < k
            /\ i \in CallHeads(n) /\ instructions_[i].op = "CALL"
            /\ j \in CallHeads(m) /\ instructions_[j].N = 2
            /\ k \in CallHeads(f) /\ instructions_[k].N = 2


----------------------------------------------------------------------------
(* Registers and constants as operands *)

\* r is a register allocRegs gave to a value
AssignedRegister(g, r) ==
  /\ r \in 1..register_size_
  /\ \E v \in DOMAIN value_to_reg_ :
       NodeOf(g, v).kind # "Constant" /\ value_to_reg_[v] = r

\* the operands of instruction i are of the kind its opcode reads: a LOAD,
\* a MOVE and a DROPR the register of an input of the node it was emitted
\* for, a STORE and a STOREN registers given to values, a LOADC an entry of
\* constant_table_
OperandsSeparate(g, i) ==
  CASE instructions_[i].op \in {"LOAD", "MOVE", "DROPR"} ->
         /\ AssignedRegister(g, instructions_[i].X)
         /\ \E j \in DOMAIN NodeById(g, instructions_source_[i]).inputs :
              /\ Registered(g, NodeById(g, instructions_source_[i]).inputs[j])
              /\ value_to_reg_[NodeById(g, instructions_source_[i]).inputs[j]]
                   = instructions_[i].X
    [] instructions_[i].op = "STORE" ->
         AssignedRegister(g, instructions_[i].X)
    [] instructions_[i].op = "STOREN" ->
         \A k \in 0..(instructions_[i].N - 1) :
           AssignedRegister(g, instructions_[i].X + k)
    [] instructions_[i].op = "LOADC" ->
         instructions_[i].X \in 0..(Len(constant_table_) - 1)
    [] OTHER -> TRUE

\* the constants that hold an entry of constant_table_
ConstantsBound(g) ==
  {c \in DOMAIN value_to_reg_ : NodeOf(g, c).kind = "Constant"}

\* the instruction emitUse appends to r
LastOf(r) == r.instructions_[Len(r.instructions_)]

----------------------------------------------------------------------------
(* The end of the main body and of the bailout blocks *)

\* the index (from 1) of the instruction before the k-th bailout block of
\* the finished program, and the indices of the block
BeforeBlock(k) == MainLength + BlocksLength(bailout_blocks_, k - 1)
BlockRange(k) ==
  (BeforeBlock(k) + 1)..(BeforeBlock(k) + Len(bailout_blocks_[k].instructions))

\* the instructions that transfer control to the index i + X
AllJumps == {i \in DOMAIN instructions_ :
               instructions_[i].op \in {"JF", "JMP", "LOOP"}}

\* C33: the finished program has one RET, the last instruction of the main
\* body, right before the first bailout block; every bailout block holds
\* at least one instruction and ends in TAIL_CALL, so that the last
\* instruction of the program is RET or TAIL_CALL; and control reaches a
\* bailout block only through the JF that follows its own guard: the
\* instruction before the block is RET or TAIL_CALL, and the one jump that
\* lands in the block is that JF, on the first instruction of the block.
C33_ControlTermination ==
  pc = "done" /\ err = "none" =>
    /\ {i \in DOMAIN instructions_ : instructions_[i].op = "RET"}
         = {MainLength}
    /\ instructions_[Len(instructions_)].op
         = IF bailout_blocks_ = <<>> THEN "RET" ELSE "TAIL_CALL"
    /\ \A k \in DOMAIN bailout_blocks_ :
         /\ BlockRange(k) # {}
         /\ instructions_[BeforeBlock(k + 1)].op = "TAIL_CALL"
         /\ \A i \in BlockRange(k) :
              instructions_[i].op = "TAIL_CALL" => i = BeforeBlock(k + 1)
         /\ instructions_[BeforeBlock(k)].op \in {"RET", "TAIL_CALL"}
         /\ {i \in AllJumps : i + instructions_[i].X \in BlockRange(k)}
              = {bailout_blocks_[k].jf_instruction_index + 1}
         /\ bailout_blocks_[k].jf_instruction_index
              + instructions_[bailout_blocks_[k].jf_instruction_index + 1].X
              = BeforeBlock(k)
         /\ instructions_[bailout_blocks_[k].jf_instruction_index].op
              \in {"GUARD", "FAIL_GUARD"}
         /\ instructions_source_[bailout_blocks_[k].jf_instruction_index]
              = instructions_source_[BeforeBlock(k + 1)]

\* a finished program with a loop, a JF of an If and three bailout blocks,
\* one of which holds loads before its TAIL_CALL
C33_Witness ==
  /\ pc = "done" /\ err = "none"
  /\ Len(bailout_blocks_) >= 3
  /\ \E k \in DOMAIN bailout_blocks_ : Cardinality(BlockRange(k)) > 1
  /\ \E i, j \in AllJumps :
       /\ instructions_[i].op = "LOOP"
       /\ instructions_[j].op = "JF"
       /\ instructions_[j - 1].op \notin {"GUARD", "FAIL_GUARD"}


----------------------------------------------------------------------------
(* Guards and their bailout blocks.  CodeImpl takes can_emit_inline as it *)
(* is given: the graphs above and one in which a live input of a BailOut  *)
(* is emitted inline and holds a BailOut.                                 *)

InitAnyGraph ==
  /\ \E g \in Graphs \cup {Handle("GuardLive", 0, 0)} : Constructed(g)
  /\ FLAGS_torch_jit_disable_warning_prints \in BOOLEAN
  /\ dynamic_type = "CodeImpl"
  /\ pc = "emit"
  /\ pos = 0

SpecAnyGraph == InitAnyGraph /\ [][Next]_vars

\* the nodes emitted inline at the inputs of node m
InlineInputs(g, m) ==
  {NodeOf(g, m.inputs[j]) :
     j \in {k \in DOMAIN m.inputs :
              NodeOf(g, m.inputs[k]).id \in g.can_emit_inline}}

\* the nodes lowered when node n is: n, the nodes of its blocks and the
\* nodes emitted inline at their inputs
RECURSIVE EmittedWith(_, _)
EmittedWith(g, n) ==
  {n} \cup NodesOfBlocks(n.blocks)
      \cup UNION {UNION {EmittedWith(g, q) : q \in InlineInputs(g, m)} :
                    m \in {n} \cup NodesOfBlocks(n.blocks)}

\* no BailOut of g has, after its guarded input, an input emitted inline
\* whose lowering holds a BailOut
LiveInputsHoldNoGuard(g) ==
  \A m \in AllNodes(g) :
    m.kind = "BailOut" =>
      \A j \in DOMAIN m.inputs :
        j >= 3 /\ NodeOf(g, m.inputs[j]).id \in g.can_emit_inline =>
          \A n \in EmittedWith(g, NodeOf(g, m.inputs[j])) :
            n.kind # "BailOut"

\* the guards of a finished program and its bailout blocks are paired in
\* order
GuardsPaired ==
  /\ Cardinality(GuardIndices(instructions_)) = Len(bailout_blocks_)
  /\ \A i \in GuardIndices(instructions_) :
       /\ i < MainLength
       /\ instructions_[i + 1].op = "JF"
  /\ \A k \in DOMAIN bailout_blocks_ :
       /\ bailout_blocks_[k].jf_instruction_index
            \in GuardIndices(instructions_)
       /\ Cardinality({i \in GuardIndices(instructions_) :
                         i <= bailout_blocks_[k].jf_instruction_index}) = k
       /\ bailout_blocks_[k].jf_instruction_index
            + instructions_[bailout_blocks_[k].jf_instruction_index + 1].X
            = BeforeBlock(k)
  /\ \A i, j \in GuardIndices(instructions_) :
       i < j => i + instructions_[i + 1].X < j + instructions_[j + 1].X

----------------------------------------------------------------------------
(* request_bailout: the index of a guard, and a request past the last one *)

\* the indices request_bailout counts, from 0, of the FAIL_GUARD
\* instructions of a program
FailedGuards(instrs) ==
  {Cardinality({j \in GuardIndices(instrs) : j < i}) :
     i \in {k \in GuardIndices(instrs) : instrs[k].op = "FAIL_GUARD"}}

\* C35: the program run() leaves holds no FAIL_GUARD; request_bailout(k)
\* adds k to the indices of the FAIL_GUARD instructions when the program
\* has more than k guards, and nothing otherwise, so that after any
\* sequence of requests these indices are the requested indices in range;
\* and two requests give the same object in either order.
C35_StableBailoutIndexing ==
  /\ [](pc = "done" =>
          \A i, j \in 0..MaxBailoutIndex :
            request_bailout(request_bailout(Self, i), j)
              = request_bailout(request_bailout(Self, j), i))
  /\ [][/\ pc # "done" /\ pc' = "done" => FailedGuards(instructions_') = {}
        /\ \A k \in 0..MaxBailoutIndex :
             RequestBailout(k) =>
               /\ GuardIndices(instructions_') = GuardIndices(instructions_)
               /\ FailedGuards(instructions_')
                    = FailedGuards(instructions_)
                        \cup ({k} \cap
                                0..(Cardinality(GuardIndices(instructions_))
                                      - 1))
       ]_vars

\* requests have patched the second and the third guard of a program and
\* left the first
C35_Witness ==
  /\ pc = "done"
  /\ Cardinality(GuardIndices(instructions_)) >= 3
  /\ FailedGuards(instructions_) = {1, 2}

\* C36: on a finished program with g guards, request_bailout(k) with
\* k >= g returns the object as it is, every instruction and every table;
\* the scan ends at the last instruction.
C36_OutOfRangeRequest ==
  /\ [](pc = "done" =>
          \A k \in 0..MaxBailoutIndex :
            request_bailout(
              Self, Cardinality(GuardIndices(instructions_)) + k) = Self)
  /\ [][\A k \in 0..MaxBailoutIndex :
          RequestBailout(k) /\ k >= Cardinality(GuardIndices(instructions_))
            => UNCHANGED vars
       ]_vars

\* a finished program with two guards, the first patched and the second
\* not, on which the requests 2 and 3 are past the last guard
C36_Witness ==
  /\ pc = "done"
  /\ Cardinality(GuardIndices(instructions_)) = 2
  /\ FailedGuards(instructions_) = {0}
  /\ MaxBailoutIndex >= 2


----------------------------------------------------------------------------
(* grad_executors() and diff_graph_op_executors(), called by the threads   *)
(* that hold the finished object.  Neither function takes a lock, so the   *)
(* statements of two calls interleave; a step is one statement.            *)

\* detail::getGradExecutor(op) and detail::getDifferentiableGraphOpExecutor(op):
\* the executor of the operation of a prim::DifferentiableGraph node, and
\* nullptr for any other operation
getExecutor(g, fn, op) ==
  IF NodeById(g, op[2]).op.name = "prim::DifferentiableGraph"
  THEN <<"GraphExecutor", fn, op[2]>>
  ELSE <<"nullptr", fn, 0>>

\* grad_executors() and diff_graph_op_executors(), one statement of the
\* call c of a thread on the optional list of the function: the call, the
\* test if (!list), list.emplace(), one turn of the range-for over
\* operator_table_ (the end of the range included), return *list, after
\* which the caller reads the list
grad_executors(fn, c, list, g, operator_table) ==
  CASE c.at = "idle" ->
         [call |-> [c EXCEPT !.fn = fn, !.at = "if"], list |-> list]
    [] c.at = "if" ->
         [call |-> [c EXCEPT !.at = IF list.has_value THEN "return"
                                    ELSE "emplace"],
          list |-> list]
    [] c.at = "emplace" ->
         [call |-> [c EXCEPT !.at = "for", !.i = 0],
          list |-> [has_value |-> TRUE, value |-> <<>>]]
    [] c.at = "for" ->
         IF c.i < Len(operator_table)
         THEN [call |-> [c EXCEPT !.i = @ + 1],
               list |-> IF getExecutor(g, fn, operator_table[c.i + 1])[1]
                             # "nullptr"
                        THEN [list EXCEPT !.value =
                                Append(@, getExecutor(g, fn,
                                                      operator_table[c.i + 1]))]
                        ELSE list]
         ELSE [call |-> [c EXCEPT !.at = "return"], list |-> list]
    [] c.at = "return" ->
         [call |-> [c EXCEPT !.at = "idle", !.returned = list.value,
                             !.made = @ + 1],
          list |-> list]

\* thread t begins a call of fn, or executes the next statement of its call
Executors(t, fn) ==
  /\ pc = "done"
  /\ IF call[t].at = "idle" THEN call[t].made < MaxThreadCalls
     ELSE fn = call[t].fn
  /\ call' = [call EXCEPT ![t] =
                grad_executors(fn, call[t],
                               IF fn = "grad_executors" THEN grad_executors_
                               ELSE forward_executors_,
                               Deref(graph_), operator_table_).call]
  /\ grad_executors_' =
       IF fn = "grad_executors"
       THEN grad_executors(fn, call[t], grad_executors_, Deref(graph_),
                           operator_table_).list
       ELSE grad_executors_
  /\ forward_executors_' =
       IF fn = "diff_graph_op_executors"
       THEN grad_executors(fn, call[t], forward_executors_, Deref(graph_),
                           operator_table_).list
       ELSE forward_executors_
  /\ UNCHANGED <<graph_, instructions_, instructions_source_, constant_table_,
                 operator_table_, function_table_, type_table_,
                 register_size_, value_to_reg_, use_count_, current_node_,
                 last_inserted_op_, bailout_blocks_,
                 FLAGS_torch_jit_disable_warning_prints,
                 op_to_num_specified_args_, dynamic_type, frame, pc, pos,
                 err, ret>>

InitExecutors ==
  /\ Constructed(Handle("Differentiable", 0, 0))
  /\ FLAGS_torch_jit_disable_warning_prints = FALSE
  /\ dynamic_type = "CodeImpl"
  /\ pc = "emit"
  /\ pos = 0

NextExecutors ==
  \/ EmitCodeForBlock
  \/ InsertRet
  \/ InsertBailoutBlocks
  \/ \E t \in Threads, fn \in {"grad_executors", "diff_graph_op_executors"} :
       Executors(t, fn)

SpecExecutors == InitExecutors /\ [][NextExecutors]_vars

\* the executors of the operations of operator_table_ that have one, in
\* the order of the table
CompleteList(g, fn) ==
  [i \in 1..Len(SelectSeq(operator_table_,
                          LAMBDA op : getExecutor(g, fn, op)[1] # "nullptr"))
     |-> getExecutor(g, fn,
                     SelectSeq(operator_table_,
                               LAMBDA op :
                                 getExecutor(g, fn, op)[1] # "nullptr")[i])]

\* C37: the list a call of grad_executors() or diff_graph_op_executors()
\* has returned holds the executor of every operation of operator_table_
\* that has one, once each and in the order of the table, whatever other
\* calls were in progress during the call.
C37_LazyExecutorLists ==
  \A t \in Threads :
    call[t].at = "idle" /\ call[t].made > 0 =>
      call[t].returned = CompleteList(Deref(graph_), call[t].fn)


----------------------------------------------------------------------------
(* The operands of TYPECHECK and ISINSTANCE *)

\* s with the inputs of node loaded as emitNode(s, node) loads them
InputsLoaded(s, node) ==
  emitLoadInputs([s EXCEPT !.current_node_ = node.id], node.inputs)

\* r is loaded with the types of node appended to type_table_ and one
\* instruction op after the loads, X the index of the first of the types
\* and N their number, and with the current node of s
TypesThenCheck(s, loaded, r, node, op) ==
  /\ Ok(loaded) /\ Ok(r)
  /\ SubSeq(loaded.instructions_, 1, Len(s.instructions_)) = s.instructions_
  /\ r.instructions_ =
       Append(loaded.instructions_,
              Instruction(op, Len(loaded.type_table_), Len(tys(node))))
  /\ r.instructions_source_ = Append(loaded.instructions_source_, node.id)
  /\ r.type_table_ = loaded.type_table_ \o tys(node)
  /\ \A k \in 1..r.instructions_[Len(r.instructions_)].N :
       r.type_table_[r.instructions_[Len(r.instructions_)].X + k]
         = <<"types", node.id, k>>
  /\ r.constant_table_ = loaded.constant_table_
  /\ r.operator_table_ = loaded.operator_table_
  /\ r.function_table_ = loaded.function_table_
  /\ r.bailout_blocks_ = loaded.bailout_blocks_
  /\ r.value_to_reg_ = loaded.value_to_reg_
  /\ r.current_node_ = s.current_node_

\* a prim::TypeCheck node with the inputs ins and n outputs
TypeCheckOf(ins, n) == TypeCheck(0, ins, [i \in 1..n |-> i])

\* C38: when the node the compilation has reached is a prim::TypeCheck or
\* a prim::isinstance node, emitNode leaves the loads of its inputs, then
\* the node's types appended to type_table_ in the order of the attribute,
\* then one TYPECHECK (N = number of inputs) or ISINSTANCE (N = number of
\* types) whose X is the index of the first appended type, so that the
\* entries X .. X + N - 1 are the node's types whatever the inlined inputs
\* appended; and emitNode of a TypeCheck node with no input, or whose
\* outputs are not one more than its inputs, fails the assertion and
\* leaves everything else as it was.
C38_TypeCheckOperandLayout ==
  pc = "emit" /\ err = "none" =>
    /\ RootNodes(graph_)[pos + 1].kind = "TypeCheck" =>
         /\ Len(tys(RootNodes(graph_)[pos + 1]))
              = Len(RootNodes(graph_)[pos + 1].inputs)
         /\ TypesThenCheck(Self,
                           InputsLoaded(Self, RootNodes(graph_)[pos + 1]),
                           emitNode(Self, RootNodes(graph_)[pos + 1]),
                           RootNodes(graph_)[pos + 1], "TYPECHECK")
    /\ RootNodes(graph_)[pos + 1].kind = "isinstance" =>
         /\ Len(tys(RootNodes(graph_)[pos + 1]))
              = RootNodes(graph_)[pos + 1].types
         /\ TypesThenCheck(Self,
                           InputsLoaded(Self, RootNodes(graph_)[pos + 1]),
                           emitNode(Self, RootNodes(graph_)[pos + 1]),
                           RootNodes(graph_)[pos + 1], "ISINSTANCE")
    /\ \A ins \in {<<>>, <<1>>, <<1, 2>>}, n \in 0..3 :
         IF Len(ins) = 0 \/ Len(ins) + 1 # n
         THEN emitNode(Self, TypeCheckOf(ins, n)) = Throw(Self, "assert")
         ELSE emitNode(Self, TypeCheckOf(ins, n)).err # "assert"

\* the compilation has reached a TypeCheck node with two inputs whose
\* loads append a type (the guard of an If emitted inline), so that the X
\* of the TYPECHECK is not the size type_table_ has before the node
C38_Witness ==
  /\ pc = "emit" /\ err = "none"
  /\ RootNodes(graph_)[pos + 1].kind = "TypeCheck"
  /\ Len(RootNodes(graph_)[pos + 1].inputs) = 2
  /\ Len(RootNodes(graph_)[pos + 1].outputs) = 3
  /\ Len(InputsLoaded(Self, RootNodes(graph_)[pos + 1]).type_table_)
       > Len(type_table_)
  /\ LastOf(emitNode(Self, RootNodes(graph_)[pos + 1])).X > Len(type_table_)
  /\ LastOf(emitNode(Self, RootNodes(graph_)[pos + 1])).N = 2


----------------------------------------------------------------------------
(* instructions_source_ *)

\* instructions_source_ of r is as long as instructions_
SameLength(r) == Len(r.instructions_source_) = Len(r.instructions_)

\* the instructions r holds after those of s that are not attributed to
\* the node id
OfOthers(s, r, id) ==
  {i \in (Len(s.instructions_) + 1)..Len(r.instructions_) :
     r.instructions_source_[i] # id}

\* C39: instructions_source_ is as long as instructions_ in every state,
\* and after insertInstruction, truncateInstructions, createBailoutBlock
\* and insertBailoutBlocks applied to the state; the instruction
\* insertInstruction appends is attributed to current_node_; lowering a
\* node leaves current_node_ as it was, and the instruction that stores
\* the outputs of a node, emitted after the lowering of its inputs and
\* blocks has returned, is attributed to the node; in the finished
\* program every instruction of a bailout block is attributed to the
\* node of the JF of the block, a prim::BailOut node.
C39_SourceTracking ==
  /\ Len(instructions_source_) = Len(instructions_)
  /\ \A i \in DOMAIN instructions_source_ :
       instructions_source_[i] \in {n.id : n \in AllNodes(Deref(graph_))}
  /\ err = "none" =>
       /\ SameLength(insertInstruction(Self, "LOAD", 1, 0))
       /\ LastOf(insertInstruction(Self, "LOAD", 1, 0))
            = Instruction("LOAD", 1, 0)
       /\ insertInstruction(Self, "LOAD", 1, 0).instructions_source_
            = Append(instructions_source_, current_node_)
       /\ \A size \in 0..(Len(instructions_) + 1) :
            /\ SameLength(truncateInstructions(Self, size))
            /\ truncateInstructions(Self, size).instructions_source_
                 = IF size > Len(instructions_) THEN instructions_source_
                   ELSE SubSeq(instructions_source_, 1, size)
       /\ \A jf_index \in 0..(Len(instructions_) - 1) :
            /\ SameLength(createBailoutBlock(Self, jf_index))
            /\ createBailoutBlock(Self, jf_index).instructions_source_
                 = SubSeq(instructions_source_, 1, jf_index + 1)
       /\ pc \in {"bailouts", "done"} =>
            SameLength(insertBailoutBlocks(Self))
  /\ pc = "emit" /\ err = "none" =>
       /\ emitNodeAtBlockLevel(Self, RootNodes(graph_)[pos + 1]).current_node_
            = current_node_
       /\ SameLength(emitNodeAtBlockLevel(Self, RootNodes(graph_)[pos + 1]))
       /\ SubSeq(emitNodeAtBlockLevel(Self, RootNodes(graph_)[pos + 1])
                   .instructions_source_, 1, Len(instructions_))
            = instructions_source_
       /\ ( /\ RootNodes(graph_)[pos + 1].outputs # <<>>
            /\ RootNodes(graph_)[pos + 1].kind \notin {"Constant", "Param"}
            /\ RootNodes(graph_)[pos + 1].id
                 \notin Deref(graph_).can_emit_inline
            /\ Ok(emitNodeAtBlockLevel(Self, RootNodes(graph_)[pos + 1])) )
            => /\ LastOf(emitNodeAtBlockLevel(
                           Self, RootNodes(graph_)[pos + 1])).op
                    \in {"STORE", "STOREN", "DROPR"}
               /\ emitNodeAtBlockLevel(Self, RootNodes(graph_)[pos + 1])
                    .instructions_source_[
                      Len(emitNodeAtBlockLevel(
                            Self, RootNodes(graph_)[pos + 1]).instructions_)]
                    = RootNodes(graph_)[pos + 1].id
  /\ pc = "done" /\ err = "none" =>
       \A k \in DOMAIN bailout_blocks_ :
         /\ instructions_[bailout_blocks_[k].jf_instruction_index + 1].op
              = "JF"
         /\ SourceNode(bailout_blocks_[k].jf_instruction_index + 1).kind
              = "BailOut"
         /\ \A i \in BlockRange(k) :
              instructions_source_[i] =
                instructions_source_[
                  bailout_blocks_[k].jf_instruction_index + 1]

\* the compilation has reached a node whose lowering emits instructions
\* of other nodes (inputs emitted inline or the nodes of its blocks)
\* before the instruction that stores its outputs, and has created a
\* bailout block of more than one instruction
C39_Witness ==
  /\ pc = "emit" /\ err = "none"
  /\ RootNodes(graph_)[pos + 1].outputs # <<>>
  /\ RootNodes(graph_)[pos + 1].id \notin Deref(graph_).can_emit_inline
  /\ Ok(emitNodeAtBlockLevel(Self, RootNodes(graph_)[pos + 1]))
  /\ OfOthers(Self, emitNodeAtBlockLevel(Self, RootNodes(graph_)[pos + 1]),
              RootNodes(graph_)[pos + 1].id) # {}
  /\ \E k \in DOMAIN bailout_blocks_ :
       Len(bailout_blocks_[k].instructions) > 1

====
